---------------------------- MODULE Spec2Model ----------------------------
(***************************************************************************)
(* Model of the Verifone client (src/verifone/verifone.py): the request /  *)
(* response signing protocol, the canonical plaintext, the dual RSA        *)
(* signatures and the configuration accessors.                             *)
(*                                                                         *)
(* Strings and byte strings are sequences of code points / byte values, so *)
(* that ordinal comparison, str(), UTF-8 encoding and hex encoding are     *)
(* computed, not assumed.  A dictionary is the sequence of its items in    *)
(* insertion order (keys distinct), as a Python dict keeps them.           *)
(***************************************************************************)
EXTENDS Integers, Sequences, FiniteSets, TLC

(***************************************************************************)
(* Bounds of the model.                                                    *)
(***************************************************************************)
\* the largest number of entries of a field mapping handed to an operation
MaxFields == 3

(***************************************************************************)
(* Text.                                                                   *)
(***************************************************************************)
\* the literals of the source, as code points
SEMI == <<59>>
EQUALS == <<61>>

\* a value of a field mapping: a string, an integer or a float
StrVal(s) == [t |-> "str", s |-> s, n |-> 0]
IntVal(n) == [t |-> "int", s |-> <<>>, n |-> n]

RECURSIVE DecimalDigits(_)
DecimalDigits(n) ==
    IF n < 10 THEN <<48 + n>>
    ELSE DecimalDigits(n \div 10) \o <<48 + (n % 10)>>

\* a float value: the double written as the decimal literal cents/100 (79.82 is
\* FloatVal(7982)), cents >= 0
FloatVal(cents) == [t |-> "float", s |-> <<>>, n |-> cents]

\* repr of the float written as cents/100: the shortest decimal that reads
\* back as the same float, with at least one decimal ('79.82', '1.5', '2.0')
float_repr(cents) ==
    DecimalDigits(cents \div 100) \o <<46>>
        \o (IF cents % 10 = 0 THEN <<48 + ((cents \div 10) % 10)>>
            ELSE <<48 + ((cents \div 10) % 10), 48 + (cents % 10)>>)

\* Python's str(value): a string is itself, an integer its decimal digits, a
\* float its repr
str(value) ==
    IF value.t = "str" THEN value.s
    ELSE IF value.t = "float" THEN float_repr(value.n)
    ELSE IF value.n < 0 THEN <<45>> \o DecimalDigits(0 - value.n)
    ELSE DecimalDigits(value.n)

\* the UTF-8 encoding of one code point (a Unicode scalar value below 2^16)
Utf8Char(c) ==
    IF c < 128 THEN <<c>>
    ELSE IF c < 2048 THEN <<192 + (c \div 64), 128 + (c % 64)>>
    ELSE <<224 + (c \div 4096), 128 + ((c \div 64) % 64), 128 + (c % 64)>>

\* str.encode('utf-8'): the encodings of the characters, in order (the text is
\* encoded half by half to keep the evaluation shallow)
RECURSIVE encode_utf8(_)
encode_utf8(s) ==
    IF s = <<>> THEN <<>>
    ELSE IF Len(s) = 1 THEN Utf8Char(s[1])
    ELSE encode_utf8(SubSeq(s, 1, Len(s) \div 2))
             \o encode_utf8(SubSeq(s, (Len(s) \div 2) + 1, Len(s)))

\* a byte that continues a multi-byte character
Continuation(b) == b >= 128 /\ b < 192

\* the character one well-formed UTF-8 sequence stands for
Utf8Value(b) ==
    IF Len(b) = 1 THEN b[1]
    ELSE IF Len(b) = 2 THEN (b[1] - 192) * 64 + (b[2] - 128)
    ELSE (b[1] - 224) * 4096 + (b[2] - 128) * 64 + (b[3] - 128)

\* bytes.decode(): the text a well-formed UTF-8 byte string stands for (the
\* bytes are decoded half by half, cut where a character starts)
RECURSIVE decode_utf8(_)
decode_utf8(b) ==
    IF b = <<>> THEN <<>>
    ELSE IF \A i \in 2..Len(b) : Continuation(b[i]) THEN <<Utf8Value(b)>>
    ELSE LET starts == {i \in 2..Len(b) : ~Continuation(b[i])}
             middle == {i \in starts : i > Len(b) \div 2}
             cut == IF middle # {}
                    THEN CHOOSE i \in middle : \A j \in middle : i <= j
                    ELSE CHOOSE i \in starts : \A j \in starts : i >= j
         IN  decode_utf8(SubSeq(b, 1, cut - 1)) \o decode_utf8(SubSeq(b, cut, Len(b)))

\* Python's ordering of str: by code point, a proper prefix first
RECURSIVE StrLess(_, _)
StrLess(a, b) ==
    IF b = <<>> THEN FALSE
    ELSE IF a = <<>> THEN TRUE
    ELSE IF Head(a) # Head(b) THEN Head(a) < Head(b)
    ELSE StrLess(Tail(a), Tail(b))

\* separator.join(parts)
RECURSIVE join(_, _)
join(sep, parts) ==
    IF parts = <<>> THEN <<>>
    ELSE IF Len(parts) = 1 THEN parts[1]
    ELSE parts[1] \o sep \o join(sep, Tail(parts))

(***************************************************************************)
(* Field names of the protocol that the client reads or writes.            *)
(***************************************************************************)
\* 's-t-256-256_signature-one'
SIGNATURE_ONE ==
    <<115, 45, 116, 45, 50, 53, 54, 45, 50, 53, 54, 95, 115, 105, 103, 110,
      97, 116, 117, 114, 101, 45, 111, 110, 101>>

\* 's-t-256-256_signature-two'
SIGNATURE_TWO ==
    <<115, 45, 116, 45, 50, 53, 54, 45, 50, 53, 54, 95, 115, 105, 103, 110,
      97, 116, 117, 114, 101, 45, 116, 119, 111>>

\* 's-t-1-40_shop-order__phase'
SHOP_ORDER_PHASE ==
    <<115, 45, 116, 45, 49, 45, 52, 48, 95, 115, 104, 111, 112, 45, 111,
      114, 100, 101, 114, 95, 95, 112, 104, 97, 115, 101>>

\* 's-f-1-30_error-message'
ERROR_MESSAGE ==
    <<115, 45, 102, 45, 49, 45, 51, 48, 95, 101, 114, 114, 111, 114, 45,
      109, 101, 115, 115, 97, 103, 101>>

\* 'l-f-1-20_request-id'
REQUEST_ID ==
    <<108, 45, 102, 45, 49, 45, 50, 48, 95, 114, 101, 113, 117, 101, 115,
      116, 45, 105, 100>>

\* 't-f-14-19_request-timestamp'
REQUEST_TIMESTAMP ==
    <<116, 45, 102, 45, 49, 52, 45, 49, 57, 95, 114, 101, 113, 117, 101,
      115, 116, 45, 116, 105, 109, 101, 115, 116, 97, 109, 112>>

\* 's-f-1-36_merchant-agreement-code'
MERCHANT_AGREEMENT_CODE ==
    <<115, 45, 102, 45, 49, 45, 51, 54, 95, 109, 101, 114, 99, 104, 97,
      110, 116, 45, 97, 103, 114, 101, 101, 109, 101, 110, 116, 45, 99, 111,
      100, 101>>

\* 's-f-1-30_software'
SOFTWARE ==
    <<115, 45, 102, 45, 49, 45, 51, 48, 95, 115, 111, 102, 116, 119, 97,
      114, 101>>

\* 's-f-1-10_software-version'
SOFTWARE_VERSION ==
    <<115, 45, 102, 45, 49, 45, 49, 48, 95, 115, 111, 102, 116, 119, 97,
      114, 101, 45, 118, 101, 114, 115, 105, 111, 110>>

\* 'i-f-1-11_interface-version'
INTERFACE_VERSION ==
    <<105, 45, 102, 45, 49, 45, 49, 49, 95, 105, 110, 116, 101, 114, 102,
      97, 99, 101, 45, 118, 101, 114, 115, 105, 111, 110>>

\* 's-f-1-30_operation'
OPERATION ==
    <<115, 45, 102, 45, 49, 45, 51, 48, 95, 111, 112, 101, 114, 97, 116,
      105, 111, 110>>

(***************************************************************************)
(* Dictionaries: items in insertion order.                                 *)
(***************************************************************************)
Item(k, v) == [k |-> k, v |-> v]

DictKeys(d) == {d[i].k : i \in 1..Len(d)}

HasKey(d, k) == \E i \in 1..Len(d) : d[i].k = k

\* d[k], for a key d has
Lookup(d, k) == d[CHOOSE i \in 1..Len(d) : d[i].k = k].v

\* d[k] = v: an existing key keeps its position, a new key is appended
SetItem(d, k, v) ==
    IF HasKey(d, k)
    THEN [i \in 1..Len(d) |-> IF d[i].k = k THEN Item(k, v) ELSE d[i]]
    ELSE Append(d, Item(k, v))

\* del d[k]
DelItem(d, k) == SelectSeq(d, LAMBDA it : it.k # k)

\* d.update(other)
RECURSIVE DictUpdate(_, _)
DictUpdate(d, other) ==
    IF other = <<>> THEN d
    ELSE DictUpdate(SetItem(d, Head(other).k, Head(other).v), Tail(other))

\* dict equality: the same key/value pairs, in whatever order
DictEq(d, e) == {d[i] : i \in 1..Len(d)} = {e[i] : i \in 1..Len(e)}

(***************************************************************************)
(* get_plaintext.                                                          *)
(***************************************************************************)
\* the order of sorted() on (key, value) items whose keys are distinct
ItemLess(a, b) == StrLess(a.k, b.k)

RECURSIVE InsertSorted(_, _)
InsertSorted(it, sortedItems) ==
    IF sortedItems = <<>> THEN <<it>>
    ELSE IF ItemLess(it, Head(sortedItems)) THEN <<it>> \o sortedItems
    ELSE <<Head(sortedItems)>> \o InsertSorted(it, Tail(sortedItems))

\* a sort that leaves the items in insertion order
sorted_insertion_order(items) == items

RECURSIVE sorted(_)
sorted(items) ==
    IF items = <<>> THEN <<>>
    ELSE InsertSorted(items[Len(items)], sorted(SubSeq(items, 1, Len(items) - 1)))

\* name_key_pairs: key + "=" + str(value) for the items in sorted order
name_key_pairs(data) ==
    LET items == sorted(data)
    IN  [i \in 1..Len(items) |-> items[i].k \o EQUALS \o str(items[i].v)]

\* the plaintext without the trailing separator
get_plaintext_joined_only(data) == encode_utf8(join(SEMI, name_key_pairs(data)))

get_plaintext(data) == encode_utf8(join(SEMI, name_key_pairs(data)) \o SEMI)

(***************************************************************************)
(* Amounts.  A Python float is a binary floating-point number m * 2^e with  *)
(* a significand of MantissaBits bits, every operation rounded to nearest,  *)
(* ties to even.  The significand is narrower here than the 53 bits of a    *)
(* double so that every intermediate fits the integers of the checker; the  *)
(* amounts are bounded to match (MaxCents).                                 *)
(***************************************************************************)
MantissaBits == 20

\* n / d rounded to the nearest integer, ties to even (n >= 0, d > 0)
RoundHalfEven(n, d) ==
    LET q == n \div d
        r == n % d
    IN  IF 2 * r > d \/ (2 * r = d /\ q % 2 = 1) THEN q + 1 ELSE q

\* the number of bits of n > 0
BitLength(n) == CHOOSE k \in 1..30 : 2^(k - 1) <= n /\ n < 2^k

\* m * 2^e with m of up to MantissaBits + 1 bits, the significand brought
\* back to MantissaBits bits
Normalized(m, e) ==
    IF m = 2^MantissaBits THEN [m |-> 2^(MantissaBits - 1), e |-> e + 1]
    ELSE [m |-> m, e |-> e]

\* the float nearest to n / d (n >= 0, d > 0)
NearestFloat(n, d) ==
    IF n = 0 THEN [m |-> 0, e |-> 0]
    ELSE LET \* 2^k <= n / d < 2^(k + 1)
             k == CHOOSE j \in -10..20 :
                     /\ IF j >= 0 THEN d * 2^j <= n ELSE d <= n * 2^(0 - j)
                     /\ IF j + 1 >= 0 THEN n < d * 2^(j + 1) ELSE n * 2^(0 - j - 1) < d
             e == k - (MantissaBits - 1)
         IN  Normalized(IF e >= 0 THEN RoundHalfEven(n, d * 2^e)
                        ELSE RoundHalfEven(n * 2^(0 - e), d), e)

\* number * 100 for a float number
TimesHundred(x) ==
    IF x.m = 0 THEN x
    ELSE LET product == x.m * 100
             shift == BitLength(product) - MantissaBits
         IN  Normalized(RoundHalfEven(product, 2^shift), x.e + shift)

\* round(x) of a float: the nearest integer, ties to even
round(x) ==
    IF x.e >= 0 THEN x.m * 2^x.e ELSE RoundHalfEven(x.m, 2^(0 - x.e))

\* int(x) of a float: the fraction is cut off
int(x) ==
    IF x.e >= 0 THEN x.m * 2^x.e ELSE x.m \div 2^(0 - x.e)

\* an amount cut off to minor units instead of rounded
format_to_integer_truncated(number) ==
    IF number.t = "int" THEN number.n * 100
    ELSE int(TimesHundred(NearestFloat(number.n, 100)))

\* format_to_integer: int(round(number * 100)), of an int or a float
format_to_integer(number) ==
    IF number.t = "int" THEN number.n * 100
    ELSE round(TimesHundred(NearestFloat(number.n, 100)))

(***************************************************************************)
(* Truncation.                                                             *)
(***************************************************************************)
\* a truncation that keeps one character too many
get_substring_one_more(string, length) ==
    IF Len(str(string)) > length THEN SubSeq(str(string), 1, length + 1)
    ELSE str(string)

\* get_substring(string, length), length >= 0: str(string) for what is no str,
\* cut to its first length characters when it is longer
get_substring(string, length) ==
    LET text == IF string.t # "str" THEN str(string) ELSE string.s
    IN  IF Len(text) > length THEN SubSeq(text, 1, length) ELSE text

(***************************************************************************)
(* Basket items: the keys of an item and the field names they are flattened *)
(* to, to which the index of the item is appended.                         *)
(***************************************************************************)
\* the keys of a basket item
ITEM ==
    [
     \* 'name'
     name |->
         <<110, 97, 109, 101>>,
     \* 'pieces'
     pieces |->
         <<112, 105, 101, 99, 101, 115>>,
     \* 'vat'
     vat |->
         <<118, 97, 116>>,
     \* 'discount'
     discount |->
         <<100, 105, 115, 99, 111, 117, 110, 116>>,
     \* 'amount_net'
     amount_net |->
         <<97, 109, 111, 117, 110, 116, 95, 110, 101, 116>>,
     \* 'amount_gross'
     amount_gross |->
         <<97, 109, 111, 117, 110, 116, 95, 103, 114, 111, 115, 115>>,
     \* 'unit_cost_gross'
     unit_cost_gross |->
         <<117, 110, 105, 116, 95, 99, 111, 115, 116, 95, 103, 114, 111, 115,
           115>>,
     \* 'unit_cost'
     unit_cost |->
         <<117, 110, 105, 116, 95, 99, 111, 115, 116>>]

\* the fields of a basket item, before the index
BI ==
    [
     \* 's-t-1-30_bi-name-'
     name |->
         <<115, 45, 116, 45, 49, 45, 51, 48, 95, 98, 105, 45, 110, 97, 109,
           101, 45>>,
     \* 'i-t-1-11_bi-unit-count-'
     unit_count |->
         <<105, 45, 116, 45, 49, 45, 49, 49, 95, 98, 105, 45, 117, 110, 105,
           116, 45, 99, 111, 117, 110, 116, 45>>,
     \* 'i-t-1-4_bi-vat-percentage-'
     vat_percentage |->
         <<105, 45, 116, 45, 49, 45, 52, 95, 98, 105, 45, 118, 97, 116, 45,
           112, 101, 114, 99, 101, 110, 116, 97, 103, 101, 45>>,
     \* 'i-t-1-4_bi-discount-percentage-'
     discount_percentage |->
         <<105, 45, 116, 45, 49, 45, 52, 95, 98, 105, 45, 100, 105, 115, 99,
           111, 117, 110, 116, 45, 112, 101, 114, 99, 101, 110, 116, 97, 103,
           101, 45>>,
     \* 'l-t-1-20_bi-net-amount-'
     net_amount |->
         <<108, 45, 116, 45, 49, 45, 50, 48, 95, 98, 105, 45, 110, 101, 116,
           45, 97, 109, 111, 117, 110, 116, 45>>,
     \* 'l-t-1-20_bi-gross-amount-'
     gross_amount |->
         <<108, 45, 116, 45, 49, 45, 50, 48, 95, 98, 105, 45, 103, 114, 111,
           115, 115, 45, 97, 109, 111, 117, 110, 116, 45>>,
     \* 'l-t-1-20_bi-unit-gross-cost-'
     unit_gross_cost |->
         <<108, 45, 116, 45, 49, 45, 50, 48, 95, 98, 105, 45, 117, 110, 105,
           116, 45, 103, 114, 111, 115, 115, 45, 99, 111, 115, 116, 45>>,
     \* 'l-t-1-20_bi-unit-cost-'
     unit_cost |->
         <<108, 45, 116, 45, 49, 45, 50, 48, 95, 98, 105, 45, 117, 110, 105,
           116, 45, 99, 111, 115, 116, 45>>]

(***************************************************************************)
(* generate_payment_data: the keys of its argument and the fields of its    *)
(* result; the fields of the operations.                                   *)
(***************************************************************************)
\* the keys of the data handed to generate_payment_data
DATA ==
    [
     \* 'order_number'
     order_number |->
         <<111, 114, 100, 101, 114, 95, 110, 117, 109, 98, 101, 114>>,
     \* 'locale'
     locale |->
         <<108, 111, 99, 97, 108, 101>>,
     \* 'amount_gross'
     amount_gross |->
         <<97, 109, 111, 117, 110, 116, 95, 103, 114, 111, 115, 115>>,
     \* 'amount_net'
     amount_net |->
         <<97, 109, 111, 117, 110, 116, 95, 110, 101, 116>>,
     \* 'vat_amount'
     vat_amount |->
         <<118, 97, 116, 95, 97, 109, 111, 117, 110, 116>>,
     \* 'first_name'
     first_name |->
         <<102, 105, 114, 115, 116, 95, 110, 97, 109, 101>>,
     \* 'last_name'
     last_name |->
         <<108, 97, 115, 116, 95, 110, 97, 109, 101>>,
     \* 'email'
     email |->
         <<101, 109, 97, 105, 108>>,
     \* 'phone'
     phone |->
         <<112, 104, 111, 110, 101>>,
     \* 'address'
     address |->
         <<97, 100, 100, 114, 101, 115, 115>>,
     \* 'address2'
     address2 |->
         <<97, 100, 100, 114, 101, 115, 115, 50>>,
     \* 'address3'
     address3 |->
         <<97, 100, 100, 114, 101, 115, 115, 51>>,
     \* 'city'
     city |->
         <<99, 105, 116, 121>>,
     \* 'postal_code'
     postal_code |->
         <<112, 111, 115, 116, 97, 108, 95, 99, 111, 100, 101>>,
     \* 'country'
     country |->
         <<99, 111, 117, 110, 116, 114, 121>>,
     \* 'style'
     style |->
         <<115, 116, 121, 108, 101>>,
     \* 'cancel_url'
     cancel_url |->
         <<99, 97, 110, 99, 101, 108, 95, 117, 114, 108>>,
     \* 'error_url'
     error_url |->
         <<101, 114, 114, 111, 114, 95, 117, 114, 108>>,
     \* 'expired_url'
     expired_url |->
         <<101, 120, 112, 105, 114, 101, 100, 95, 117, 114, 108>>,
     \* 'rejected_url'
     rejected_url |->
         <<114, 101, 106, 101, 99, 116, 101, 100, 95, 117, 114, 108>>,
     \* 'success_url'
     success_url |->
         <<115, 117, 99, 99, 101, 115, 115, 95, 117, 114, 108>>,
     \* 'success_url_server'
     success_url_server |->
         <<115, 117, 99, 99, 101, 115, 115, 95, 117, 114, 108, 95, 115, 101,
           114, 118, 101, 114>>,
     \* 'note'
     note |->
         <<110, 111, 116, 101>>,
     \* 'save_method'
     save_method |->
         <<115, 97, 118, 101, 95, 109, 101, 116, 104, 111, 100>>,
     \* 'customer_id'
     customer_id |->
         <<99, 117, 115, 116, 111, 109, 101, 114, 95, 105, 100>>,
     \* 'payment_method'
     payment_method |->
         <<112, 97, 121, 109, 101, 110, 116, 95, 109, 101, 116, 104, 111,
           100>>,
     \* 'products'
     products |->
         <<112, 114, 111, 100, 117, 99, 116, 115>>,
     \* 'payment_timestamp'
     payment_timestamp |->
         <<112, 97, 121, 109, 101, 110, 116, 95, 116, 105, 109, 101, 115,
           116, 97, 109, 112>>,
     \* 'order_timestamp'
     order_timestamp |->
         <<111, 114, 100, 101, 114, 95, 116, 105, 109, 101, 115, 116, 97,
           109, 112>>,
     \* 'dynamic_feedback'
     dynamic_feedback |->
         <<100, 121, 110, 97, 109, 105, 99, 95, 102, 101, 101, 100, 98, 97,
           99, 107>>,
     \* 'skip_confirmation'
     skip_confirmation |->
         <<115, 107, 105, 112, 95, 99, 111, 110, 102, 105, 114, 109, 97, 116,
           105, 111, 110>>]

\* the fields of the payment data and of the operations' options
FIELD ==
    [
     \* 's-f-32-32_payment-token'
     payment_token |->
         <<115, 45, 102, 45, 51, 50, 45, 51, 50, 95, 112, 97, 121, 109, 101,
           110, 116, 45, 116, 111, 107, 101, 110>>,
     \* 'locale-f-2-5_payment-locale'
     payment_locale |->
         <<108, 111, 99, 97, 108, 101, 45, 102, 45, 50, 45, 53, 95, 112, 97,
           121, 109, 101, 110, 116, 45, 108, 111, 99, 97, 108, 101>>,
     \* 't-f-14-19_payment-timestamp'
     payment_timestamp |->
         <<116, 45, 102, 45, 49, 52, 45, 49, 57, 95, 112, 97, 121, 109, 101,
           110, 116, 45, 116, 105, 109, 101, 115, 116, 97, 109, 112>>,
     \* 't-f-14-19_order-timestamp'
     order_timestamp |->
         <<116, 45, 102, 45, 49, 52, 45, 49, 57, 95, 111, 114, 100, 101, 114,
           45, 116, 105, 109, 101, 115, 116, 97, 109, 112>>,
     \* 's-f-1-36_order-number'
     order_number |->
         <<115, 45, 102, 45, 49, 45, 51, 54, 95, 111, 114, 100, 101, 114, 45,
           110, 117, 109, 98, 101, 114>>,
     \* 'i-f-1-3_order-currency-code'
     order_currency_code |->
         <<105, 45, 102, 45, 49, 45, 51, 95, 111, 114, 100, 101, 114, 45, 99,
           117, 114, 114, 101, 110, 99, 121, 45, 99, 111, 100, 101>>,
     \* 'i-t-1-4_order-vat-percentage'
     order_vat_percentage |->
         <<105, 45, 116, 45, 49, 45, 52, 95, 111, 114, 100, 101, 114, 45,
           118, 97, 116, 45, 112, 101, 114, 99, 101, 110, 116, 97, 103, 101>>,
     \* 's-f-1-30_buyer-first-name'
     buyer_first_name |->
         <<115, 45, 102, 45, 49, 45, 51, 48, 95, 98, 117, 121, 101, 114, 45,
           102, 105, 114, 115, 116, 45, 110, 97, 109, 101>>,
     \* 's-f-1-30_buyer-last-name'
     buyer_last_name |->
         <<115, 45, 102, 45, 49, 45, 51, 48, 95, 98, 117, 121, 101, 114, 45,
           108, 97, 115, 116, 45, 110, 97, 109, 101>>,
     \* 's-f-1-100_buyer-email-address'
     buyer_email_address |->
         <<115, 45, 102, 45, 49, 45, 49, 48, 48, 95, 98, 117, 121, 101, 114,
           45, 101, 109, 97, 105, 108, 45, 97, 100, 100, 114, 101, 115, 115>>,
     \* 's-t-1-30_style-code'
     style_code |->
         <<115, 45, 116, 45, 49, 45, 51, 48, 95, 115, 116, 121, 108, 101, 45,
           99, 111, 100, 101>>,
     \* 's-f-5-256_cancel-url'
     cancel_url |->
         <<115, 45, 102, 45, 53, 45, 50, 53, 54, 95, 99, 97, 110, 99, 101,
           108, 45, 117, 114, 108>>,
     \* 's-f-5-256_error-url'
     error_url |->
         <<115, 45, 102, 45, 53, 45, 50, 53, 54, 95, 101, 114, 114, 111, 114,
           45, 117, 114, 108>>,
     \* 's-f-5-256_expired-url'
     expired_url |->
         <<115, 45, 102, 45, 53, 45, 50, 53, 54, 95, 101, 120, 112, 105, 114,
           101, 100, 45, 117, 114, 108>>,
     \* 's-f-5-256_rejected-url'
     rejected_url |->
         <<115, 45, 102, 45, 53, 45, 50, 53, 54, 95, 114, 101, 106, 101, 99,
           116, 101, 100, 45, 117, 114, 108>>,
     \* 's-f-5-256_success-url'
     success_url |->
         <<115, 45, 102, 45, 53, 45, 50, 53, 54, 95, 115, 117, 99, 99, 101,
           115, 115, 45, 117, 114, 108>>,
     \* 's-t-5-256_change-server-to-server-success-url'
     change_server_to_server_success_url |->
         <<115, 45, 116, 45, 53, 45, 50, 53, 54, 95, 99, 104, 97, 110, 103,
           101, 45, 115, 101, 114, 118, 101, 114, 45, 116, 111, 45, 115, 101,
           114, 118, 101, 114, 45, 115, 117, 99, 99, 101, 115, 115, 45, 117,
           114, 108>>,
     \* 'i-t-1-1_skip-confirmation-page'
     skip_confirmation_page |->
         <<105, 45, 116, 45, 49, 45, 49, 95, 115, 107, 105, 112, 45, 99, 111,
           110, 102, 105, 114, 109, 97, 116, 105, 111, 110, 45, 112, 97, 103,
           101>>,
     \* 'l-f-1-20_order-gross-amount'
     order_gross_amount |->
         <<108, 45, 102, 45, 49, 45, 50, 48, 95, 111, 114, 100, 101, 114, 45,
           103, 114, 111, 115, 115, 45, 97, 109, 111, 117, 110, 116>>,
     \* 'l-f-1-20_order-net-amount'
     order_net_amount |->
         <<108, 45, 102, 45, 49, 45, 50, 48, 95, 111, 114, 100, 101, 114, 45,
           110, 101, 116, 45, 97, 109, 111, 117, 110, 116>>,
     \* 'l-f-1-20_order-vat-amount'
     order_vat_amount |->
         <<108, 45, 102, 45, 49, 45, 50, 48, 95, 111, 114, 100, 101, 114, 45,
           118, 97, 116, 45, 97, 109, 111, 117, 110, 116>>,
     \* 's-t-1-30_buyer-phone-number'
     buyer_phone_number |->
         <<115, 45, 116, 45, 49, 45, 51, 48, 95, 98, 117, 121, 101, 114, 45,
           112, 104, 111, 110, 101, 45, 110, 117, 109, 98, 101, 114>>,
     \* 's-t-1-30_delivery-address-line-one'
     delivery_address_line_one |->
         <<115, 45, 116, 45, 49, 45, 51, 48, 95, 100, 101, 108, 105, 118,
           101, 114, 121, 45, 97, 100, 100, 114, 101, 115, 115, 45, 108, 105,
           110, 101, 45, 111, 110, 101>>,
     \* 's-t-1-30_delivery-address-line-two'
     delivery_address_line_two |->
         <<115, 45, 116, 45, 49, 45, 51, 48, 95, 100, 101, 108, 105, 118,
           101, 114, 121, 45, 97, 100, 100, 114, 101, 115, 115, 45, 108, 105,
           110, 101, 45, 116, 119, 111>>,
     \* 's-t-1-30_delivery-address-line-three'
     delivery_address_line_three |->
         <<115, 45, 116, 45, 49, 45, 51, 48, 95, 100, 101, 108, 105, 118,
           101, 114, 121, 45, 97, 100, 100, 114, 101, 115, 115, 45, 108, 105,
           110, 101, 45, 116, 104, 114, 101, 101>>,
     \* 's-t-1-30_delivery-address-city'
     delivery_address_city |->
         <<115, 45, 116, 45, 49, 45, 51, 48, 95, 100, 101, 108, 105, 118,
           101, 114, 121, 45, 97, 100, 100, 114, 101, 115, 115, 45, 99, 105,
           116, 121>>,
     \* 's-t-1-30_delivery-address-postal-code'
     delivery_address_postal_code |->
         <<115, 45, 116, 45, 49, 45, 51, 48, 95, 100, 101, 108, 105, 118,
           101, 114, 121, 45, 97, 100, 100, 114, 101, 115, 115, 45, 112, 111,
           115, 116, 97, 108, 45, 99, 111, 100, 101>>,
     \* 'i-t-1-1_save-payment-method'
     save_payment_method |->
         <<105, 45, 116, 45, 49, 45, 49, 95, 115, 97, 118, 101, 45, 112, 97,
           121, 109, 101, 110, 116, 45, 109, 101, 116, 104, 111, 100>>,
     \* 's-t-1-30_payment-method-code'
     payment_method_code |->
         <<115, 45, 116, 45, 49, 45, 51, 48, 95, 112, 97, 121, 109, 101, 110,
           116, 45, 109, 101, 116, 104, 111, 100, 45, 99, 111, 100, 101>>,
     \* 'i-t-1-3_delivery-address-country-code'
     delivery_address_country_code |->
         <<105, 45, 116, 45, 49, 45, 51, 95, 100, 101, 108, 105, 118, 101,
           114, 121, 45, 97, 100, 100, 114, 101, 115, 115, 45, 99, 111, 117,
           110, 116, 114, 121, 45, 99, 111, 100, 101>>,
     \* 's-t-1-255_buyer-external-id'
     buyer_external_id |->
         <<115, 45, 116, 45, 49, 45, 50, 53, 53, 95, 98, 117, 121, 101, 114,
           45, 101, 120, 116, 101, 114, 110, 97, 108, 45, 105, 100>>,
     \* 's-t-1-36_order-note'
     order_note |->
         <<115, 45, 116, 45, 49, 45, 51, 54, 95, 111, 114, 100, 101, 114, 45,
           110, 111, 116, 101>>,
     \* 's-t-1-1024_dynamic-feedback'
     dynamic_feedback |->
         <<115, 45, 116, 45, 49, 45, 49, 48, 50, 52, 95, 100, 121, 110, 97,
           109, 105, 99, 45, 102, 101, 101, 100, 98, 97, 99, 107>>,
     \* 'i-f-1-3_currency-code'
     currency_code |->
         <<105, 45, 102, 45, 49, 45, 51, 95, 99, 117, 114, 114, 101, 110, 99,
           121, 45, 99, 111, 100, 101>>]

\* the operations that take a delivery address
OPERATIONS ==
    [
     \* 'process-payment'
     process_payment |->
         <<112, 114, 111, 99, 101, 115, 115, 45, 112, 97, 121, 109, 101, 110,
           116>>,
     \* 'generate-payment-link'
     generate_payment_link |->
         <<103, 101, 110, 101, 114, 97, 116, 101, 45, 112, 97, 121, 109, 101,
           110, 116, 45, 108, 105, 110, 107>>,
     \* 'list-saved-payment-methods'
     list_saved_payment_methods |->
         <<108, 105, 115, 116, 45, 115, 97, 118, 101, 100, 45, 112, 97, 121,
           109, 101, 110, 116, 45, 109, 101, 116, 104, 111, 100, 115>>]

(***************************************************************************)
(* Outcome of a call: a returned value or a raised exception.              *)
(***************************************************************************)
Return(v) == [raised |-> FALSE, exc |-> "", msg |-> "", val |-> v]

Raise(exc, msg) == [raised |-> TRUE, exc |-> exc, msg |-> msg, val |-> <<>>]

(***************************************************************************)
(* binascii and bytes.upper.                                               *)
(***************************************************************************)
HexDigit(n) == IF n < 10 THEN 48 + n ELSE 87 + n

\* binascii.hexlify: two lowercase hexadecimal digits per byte
hexlify(bytes) ==
    [i \in 1..(2 * Len(bytes)) |->
        IF i % 2 = 1 THEN HexDigit(bytes[(i + 1) \div 2] \div 16)
        ELSE HexDigit(bytes[i \div 2] % 16)]

\* bytes.upper / str.upper on ASCII letters
upper(s) == [i \in 1..Len(s) |-> IF s[i] >= 97 /\ s[i] <= 122 THEN s[i] - 32 ELSE s[i]]

\* str.lower on ASCII letters
lower(s) == [i \in 1..Len(s) |-> IF s[i] >= 65 /\ s[i] <= 90 THEN s[i] + 32 ELSE s[i]]

IsHexDigit(c) ==
    \/ c >= 48 /\ c <= 57
    \/ c >= 65 /\ c <= 70
    \/ c >= 97 /\ c <= 102

HexValue(c) == IF c <= 57 THEN c - 48 ELSE IF c <= 70 THEN c - 55 ELSE c - 87

\* binascii.unhexlify accepts an even number of hexadecimal digits of either
\* case; anything else raises binascii.Error
WellFormedHex(s) == Len(s) % 2 = 0 /\ \A i \in 1..Len(s) : IsHexDigit(s[i])

unhexlify(s) ==
    [i \in 1..(Len(s) \div 2) |-> 16 * HexValue(s[2 * i - 1]) + HexValue(s[2 * i])]

(***************************************************************************)
(* The crypto library (Crypto.Hash, Crypto.Signature.PKCS1_v1_5), as an    *)
(* ideal scheme: a digest stands for its algorithm and message, and the    *)
(* signature bytes of a digest under a private key are matched only by     *)
(* that digest and the public key of the same pair.                        *)
(***************************************************************************)
\* key pairs; a key names its pair
KeyIds == {1, 2}

\* digest = '' (no hash object)
NoDigest == [alg |-> "", msg |-> <<>>]

SHA_new(plaintext) == [alg |-> "SHA1", msg |-> plaintext]

SHA512_new(plaintext) == [alg |-> "SHA512", msg |-> plaintext]

AlgByte(alg) == IF alg = "SHA1" THEN 1 ELSE 2

\* signer.sign(digest)
PKCS1_sign(private_key, digest) == <<private_key, AlgByte(digest.alg)>> \o digest.msg

\* signer.verify(digest, signature): a boolean, never an exception
PKCS1_verify(public_key, digest, signature) == signature = PKCS1_sign(public_key, digest)

(***************************************************************************)
(* generate_signature and verify_signature.                                *)
(***************************************************************************)
\* a signer that takes any unknown type for SHA1
generate_signature_default_sha1(private_key, data, signature_type) ==
    LET plaintext == get_plaintext(data)
        digest == IF signature_type = "SHA512" THEN SHA512_new(plaintext)
                  ELSE SHA_new(plaintext)
    IN  Return(upper(hexlify(PKCS1_sign(private_key, digest))))

generate_signature(private_key, data, signature_type) ==
    LET plaintext == get_plaintext(data)
        digest == IF signature_type = "SHA512" THEN SHA512_new(plaintext)
                  ELSE IF signature_type = "SHA1" THEN SHA_new(plaintext)
                  ELSE NoDigest
    IN  IF digest = NoDigest THEN Raise("ValueError", "WrongSignatureType")
        ELSE Return(upper(hexlify(PKCS1_sign(private_key, digest))))

\* a verifier with the two digests exchanged
verify_signature_swapped(public_key, signature, signature_type, plaintext) ==
    LET digest == IF signature_type = "SHA1" THEN SHA512_new(plaintext)
                  ELSE IF signature_type = "SHA512" THEN SHA_new(plaintext)
                  ELSE NoDigest
    IN  IF digest # NoDigest
        THEN IF WellFormedHex(signature)
             THEN Return(PKCS1_verify(public_key, digest, unhexlify(signature)))
             ELSE Raise("binascii.Error", "")
        ELSE Return(FALSE)

verify_signature(public_key, signature, signature_type, plaintext) ==
    LET digest == IF signature_type = "SHA1" THEN SHA_new(plaintext)
                  ELSE IF signature_type = "SHA512" THEN SHA512_new(plaintext)
                  ELSE NoDigest
    IN  IF digest # NoDigest
        THEN IF WellFormedHex(signature)
             THEN Return(PKCS1_verify(public_key, digest, unhexlify(signature)))
             ELSE Raise("binascii.Error", "")
        ELSE Return(FALSE)

(***************************************************************************)
(* Currency codes and the pycountry registry.                              *)
(***************************************************************************)
(* build_product_data.                                                     *)
(***************************************************************************)
\* a mapping with an optional amount of the item added under field + str(i)
WithAmount(product_data, item, key, field, i) ==
    IF HasKey(item, key)
    THEN SetItem(product_data, field \o DecimalDigits(i),
                 IntVal(format_to_integer(Lookup(item, key))))
    ELSE product_data

\* the fields of the item at index i (0-based) added to product_data
product_fields(product_data, item, i) ==
    LET discount == IF HasKey(item, ITEM.discount) THEN Lookup(item, ITEM.discount)
                    ELSE IntVal(0)
        index == DecimalDigits(i)
        required ==
            SetItem(SetItem(SetItem(SetItem(product_data,
                BI.name \o index, Lookup(item, ITEM.name)),
                BI.unit_count \o index, Lookup(item, ITEM.pieces)),
                BI.vat_percentage \o index, IntVal(format_to_integer(Lookup(item, ITEM.vat)))),
                BI.discount_percentage \o index, IntVal(format_to_integer(discount)))
    IN  WithAmount(WithAmount(WithAmount(WithAmount(required,
            item, ITEM.amount_net, BI.net_amount, i),
            item, ITEM.amount_gross, BI.gross_amount, i),
            item, ITEM.unit_cost_gross, BI.unit_gross_cost, i),
            item, ITEM.unit_cost, BI.unit_cost, i)

\* the loop of build_product_data over the first n items
RECURSIVE build_products(_, _)
build_products(data, n) ==
    IF n = 0 THEN Return(<<>>)
    ELSE LET before == build_products(data, n - 1)
             item == data[n]
         IN  IF before.raised THEN before
             ELSE IF ~HasKey(item, ITEM.name) \/ ~HasKey(item, ITEM.pieces)
                     \/ ~HasKey(item, ITEM.vat)
             THEN Raise("KeyError", "")
             ELSE Return(product_fields(before.val, item, n - 1))

\* a flattening that counts the items from 1
build_product_data_from_one(data) ==
    IF data = <<>> THEN Return(<<>>)
    ELSE Return(product_fields(build_products(SubSeq(data, 1, Len(data) - 1),
                                              Len(data) - 1).val,
                               data[Len(data)], Len(data)))

\* build_product_data(data): data is the list of items
build_product_data(data) == build_products(data, Len(data))

(***************************************************************************)
\* 'EUR', the class's _default_currency
_default_currency == <<69, 85, 82>>

\* 'SEK'
SEK == <<83, 69, 75>>

\* the ISO 4217 entries of the registry the model knows: alpha_3 and numeric
\* ('978', '752')
CurrencyRegistry == {[alpha_3 |-> _default_currency, numeric |-> <<57, 55, 56>>],
                     [alpha_3 |-> SEK, numeric |-> <<55, 53, 50>>]}

Registered(code) == \E c \in CurrencyRegistry : c.alpha_3 = code

\* pycountry.currencies.get(alpha_3 = code): the entry; for a code the registry
\* does not hold, KeyError in the builds that raise, None in the others
currencies_get(code, raises) ==
    IF Registered(code)
    THEN Return(CHOOSE c \in CurrencyRegistry : c.alpha_3 = code)
    ELSE IF raises THEN Raise("KeyError", "") ELSE Return("None")

\* str.isalpha, on ASCII text and the other code points of the inputs
isalpha(s) ==
    /\ s # <<>>
    /\ \A i \in 1..Len(s) : (s[i] >= 65 /\ s[i] <= 90) \/ (s[i] >= 97 /\ s[i] <= 122)

\* a setter that stores the code as it was given
currency_setter_as_given(value, raises) ==
    IF value = <<>> \/ Len(value) # 3 \/ ~isalpha(value)
    THEN [result |-> Raise("ValueError", ""), stored |-> <<>>]
    ELSE IF currencies_get(upper(value), raises).raised
    THEN [result |-> Raise("ValueError", "Incorrect currency"), stored |-> <<>>]
    ELSE [result |-> Return("None"), stored |-> <<value>>]

\* the currency setter: its outcome and, when it assigns, the value it stores
\* in self._currency (stored is <<>> or <<value>>)
currency_setter(value, raises) ==
    IF value = <<>>
    THEN [result |-> Raise("ValueError", "Mandatory currency can not be empty"),
          stored |-> <<>>]
    ELSE IF Len(value) # 3
    THEN [result |-> Raise("ValueError", "The length of the currency code is not 3"),
          stored |-> <<>>]
    ELSE IF ~isalpha(value)
    THEN [result |-> Raise("ValueError", "Only letters are allowed"), stored |-> <<>>]
    ELSE IF currencies_get(upper(value), raises).raised
    THEN [result |-> Raise("ValueError", "Incorrect currency"), stored |-> <<>>]
    ELSE [result |-> Return("None"), stored |-> <<upper(value)>>]

\* check_currency: the code the constructor stores
check_currency(currency, raises) ==
    LET checked == IF currency = <<>> \/ Len(currency) # 3 \/ ~isalpha(currency)
                   THEN _default_currency
                   ELSE currency
    IN  IF currencies_get(upper(checked), raises).raised
        THEN _default_currency
        ELSE upper(checked)

\* a getter that trusts whatever the lookup returns
currency_getter_unchecked(stored, raises) ==
    LET found == currencies_get(stored, raises)
    IN  IF found.raised THEN Raise("ValueError", "Incorrect currency")
        ELSE IF ~Registered(stored) THEN Return(<<>>)
        ELSE Return(found.val.numeric)

\* the currency getter: the numeric code of the stored code; the lookup of a
\* code the registry does not hold raises KeyError or returns None, and the
\* getter raises ValueError on either
currency_getter(stored, raises) ==
    LET found == currencies_get(stored, raises)
    IN  IF found.raised THEN Raise("ValueError", "Incorrect currency")
        ELSE IF ~Registered(stored) THEN Raise("ValueError", "Incorrect currency")
        ELSE Return(found.val.numeric)

(***************************************************************************)
(* verify_response.                                                        *)
(***************************************************************************)
\* a canonicalization that keeps the shop-order phase field
SignedFields_with_phase(data) == DelItem(DelItem(data, SIGNATURE_ONE), SIGNATURE_TWO)

\* the fields that are canonicalized: the response without the two signature
\* fields and without the shop-order phase field
SignedFields(data) ==
    DelItem(DelItem(DelItem(data, SIGNATURE_ONE), SIGNATURE_TWO), SHOP_ORDER_PHASE)

\* a verifier that is content with the first signature
verify_response_first_only(public_key, data) ==
    IF ~HasKey(data, SIGNATURE_ONE) \/ ~HasKey(data, SIGNATURE_TWO)
    THEN Raise("KeyError", "")
    ELSE LET plaintext == get_plaintext(SignedFields(data))
             one == verify_signature(public_key, Lookup(data, SIGNATURE_ONE).s,
                                     "SHA1", plaintext)
         IN  IF one.raised THEN one
             ELSE IF ~one.val THEN Raise("ValueError", "SignatureVerificationFailed")
             ELSE Return(TRUE)

\* a verifier that canonicalizes the shop-order phase field with the rest
verify_response_phase_signed(public_key, data) ==
    IF ~HasKey(data, SIGNATURE_ONE) \/ ~HasKey(data, SIGNATURE_TWO)
    THEN Raise("KeyError", "")
    ELSE LET plaintext == get_plaintext(DelItem(DelItem(data, SIGNATURE_ONE), SIGNATURE_TWO))
             one == verify_signature(public_key, Lookup(data, SIGNATURE_ONE).s,
                                     "SHA1", plaintext)
             two == verify_signature(public_key, Lookup(data, SIGNATURE_TWO).s,
                                     "SHA512", plaintext)
         IN  IF one.raised THEN one
             ELSE IF ~one.val THEN Raise("ValueError", "SignatureVerificationFailed")
             ELSE IF two.raised THEN two
             ELSE IF ~two.val THEN Raise("ValueError", "SignatureVerificationFailed")
             ELSE Return(TRUE)

verify_response(public_key, data) ==
    IF ~HasKey(data, SIGNATURE_ONE) \/ ~HasKey(data, SIGNATURE_TWO)
    THEN Raise("KeyError", "")
    ELSE LET plaintext == get_plaintext(SignedFields(data))
             one == verify_signature(public_key, Lookup(data, SIGNATURE_ONE).s,
                                     "SHA1", plaintext)
             two == verify_signature(public_key, Lookup(data, SIGNATURE_TWO).s,
                                     "SHA512", plaintext)
         IN  IF one.raised THEN one
             ELSE IF ~one.val THEN Raise("ValueError", "SignatureVerificationFailed")
             ELSE IF two.raised THEN two
             ELSE IF ~two.val THEN Raise("ValueError", "SignatureVerificationFailed")
             ELSE Return(TRUE)

(***************************************************************************)
(* The wire format: application/x-www-form-urlencoded.                     *)
(***************************************************************************)
\* str.split(sep): the pieces of s between the occurrences of the character sep
split(s, sep) ==
    LET at == {i \in 1..Len(s) : s[i] = sep}
        \* the n-th occurrence; the 0-th is before s and the last after it
        Nth(n) == IF n = 0 THEN 0
                  ELSE IF n > Cardinality(at) THEN Len(s) + 1
                  ELSE CHOOSE i \in at : Cardinality({j \in at : j < i}) = n - 1
    IN  [n \in 1..(Cardinality(at) + 1) |-> SubSeq(s, Nth(n - 1) + 1, Nth(n) - 1)]

\* the bytes a percent-encoded text stands for: '+' is a space, %XX is the
\* byte XX, any other character is itself (a long text is taken half by
\* half, cut where no %XX is cut)
RECURSIVE unquote_to_bytes(_)
unquote_to_bytes(s) ==
    LET cuts == {i \in 3..Len(s) : s[i - 1] # 37 /\ s[i - 2] # 37}
        middle == {i \in cuts : i > Len(s) \div 2}
        cut == IF middle # {}
               THEN CHOOSE i \in middle : \A j \in middle : i <= j
               ELSE CHOOSE i \in cuts : \A j \in cuts : i >= j
    IN  IF s = <<>> THEN <<>>
        ELSE IF cuts # {}
        THEN unquote_to_bytes(SubSeq(s, 1, cut - 1))
                 \o unquote_to_bytes(SubSeq(s, cut, Len(s)))
        ELSE IF s[1] = 43 THEN <<32>> \o unquote_to_bytes(Tail(s))
        ELSE IF s[1] = 37 /\ Len(s) >= 3 /\ IsHexDigit(s[2]) /\ IsHexDigit(s[3])
             THEN <<16 * HexValue(s[2]) + HexValue(s[3])>>
                      \o unquote_to_bytes(SubSeq(s, 4, Len(s)))
        ELSE Utf8Char(s[1]) \o unquote_to_bytes(Tail(s))

\* urllib.parse.unquote_plus
unquote_plus(value) == decode_utf8(unquote_to_bytes(value))

\* parse_response: the params in order, a later key replacing an earlier one;
\* a param that is not key=value makes the unpacking raise ValueError
RECURSIVE parse_params(_, _)
parse_params(params, parsed) ==
    IF params = <<>> THEN Return(parsed)
    ELSE LET pair == split(Head(params), 61)
         IN  IF Len(pair) # 2 THEN Raise("ValueError", "unpack")
             ELSE parse_params(Tail(params),
                               SetItem(parsed, pair[1], StrVal(unquote_plus(pair[2]))))

parse_response(content) == parse_params(split(decode_utf8(content), 38), <<>>)

\* the counterparty's side: urllib's quote_plus of a value and the body of a
\* field mapping
Unreserved(b) ==
    \/ b >= 48 /\ b <= 57
    \/ b >= 65 /\ b <= 90
    \/ b >= 97 /\ b <= 122
    \/ b \in {45, 46, 95, 126}

quote_byte(b) ==
    IF Unreserved(b) THEN <<b>>
    ELSE IF b = 32 THEN <<43>>
    ELSE <<37>> \o upper(hexlify(<<b>>))

RECURSIVE quote_bytes(_)
quote_bytes(bytes) ==
    IF bytes = <<>> THEN <<>>
    ELSE IF Len(bytes) = 1 THEN quote_byte(bytes[1])
    ELSE quote_bytes(SubSeq(bytes, 1, Len(bytes) \div 2))
             \o quote_bytes(SubSeq(bytes, (Len(bytes) \div 2) + 1, Len(bytes)))

quote_plus(value) == quote_bytes(encode_utf8(value))

urlencode(d) ==
    join(<<38>>, [i \in 1..Len(d) |-> d[i].k \o <<61>> \o quote_plus(str(d[i].v))])

(***************************************************************************)
(* Endpoints and send_request.                                             *)
(***************************************************************************)
endpoint(test_mode) ==
    IF test_mode # 0 THEN "https://epayment.test.point.fi/pw/serverinterface"
    ELSE "https://epayment1.point.fi/pw/serverinterface"

\* a second endpoint that knows no test mode
endpoint2_live_always(test_mode) == "https://epayment2.point.fi/pw/serverinterface"

endpoint2(test_mode) ==
    IF test_mode # 0 THEN "https://epayment.test.point.fi/pw/serverinterface"
    ELSE "https://epayment2.point.fi/pw/serverinterface"

posturl1(test_mode) ==
    IF test_mode # 0 THEN "https://epayment.test.point.fi/pw/payment"
    ELSE "https://epayment1.point.fi/pw/payment"

posturl2(test_mode) ==
    IF test_mode # 0 THEN "https://epayment.test.point.fi/pw/payment"
    ELSE "https://epayment2.point.fi/pw/payment"

\* one requests.post: the url and the form data (<<>> for a plain POST)
Post(url, data) == [url |-> url, data |-> data]

\* get_endpoint_url: the url chosen and the probes sent, given the status each
\* probe is answered with
get_endpoint_url(test_mode, probe1, probe2) ==
    IF probe1 # 200
    THEN [url |-> endpoint2(test_mode),
          sent |-> <<Post(endpoint(test_mode), <<>>), Post(endpoint2(test_mode), <<>>)>>]
    ELSE [url |-> endpoint(test_mode), sent |-> <<Post(endpoint(test_mode), <<>>)>>]

\* posturl: the url chosen and the probes sent, given the status each probe
\* is answered with; in test mode nothing is probed
posturl(test_mode, probe1, probe2) ==
    IF test_mode # 0
    THEN [url |-> "https://epayment.test.point.fi/pw/payment", sent |-> <<>>]
    ELSE IF probe1 # 200
    THEN [url |-> posturl2(test_mode),
          sent |-> <<Post(posturl1(test_mode), <<>>), Post(posturl2(test_mode), <<>>)>>]
    ELSE [url |-> posturl1(test_mode), sent |-> <<Post(posturl1(test_mode), <<>>)>>]

\* None
NoneVal == [t |-> "none", s |-> <<>>, n |-> 0]

\* bool(value) of an int, a str or None
truthy(value) ==
    IF value.t = "int" THEN value.n # 0
    ELSE IF value.t = "str" THEN value.s # <<>>
    ELSE FALSE

\* a setter that assigns the number before it validates it
test_mode_setter_assign_first(value) ==
    IF ~truthy(value) THEN [result |-> Return("None"), stored |-> <<0>>]
    ELSE IF value.t # "int"
    THEN [result |-> Raise("ValueError", "Test mode can be 1 or 0"), stored |-> <<>>]
    ELSE IF value.n # 0 /\ value.n # 1
    THEN [result |-> Raise("ValueError", "Test mode can be 1 or 0"), stored |-> <<value.n>>]
    ELSE [result |-> Return("None"), stored |-> <<value.n>>]

\* a setter that stores every number it is given
test_mode_setter_unvalidated(value) ==
    IF ~truthy(value) THEN [result |-> Return("None"), stored |-> <<0>>]
    ELSE IF value.t # "int"
    THEN [result |-> Raise("ValueError", "Test mode can be 1 or 0"), stored |-> <<>>]
    ELSE [result |-> Return("None"), stored |-> <<value.n>>]

\* the test_mode setter: its outcome and, when it assigns, the value it stores
\* (stored is <<>> or <<value>>); a str is equal to neither 0 nor 1
test_mode_setter(value) ==
    IF ~truthy(value) THEN [result |-> Return("None"), stored |-> <<0>>]
    ELSE IF value.t # "int" \/ (value.n # 0 /\ value.n # 1)
    THEN [result |-> Raise("ValueError", "Test mode can be 1 or 0"), stored |-> <<>>]
    ELSE [result |-> Return("None"), stored |-> <<value.n>>]

\* the request data send_request signs: the metadata with the options merged in
request_data(self, options, env) ==
    DictUpdate(<<Item(REQUEST_ID, StrVal(env.now_id \o DecimalDigits(env.rand))),
                 Item(REQUEST_TIMESTAMP, StrVal(env.now)),
                 Item(MERCHANT_AGREEMENT_CODE, StrVal(self.agreement_code)),
                 Item(SOFTWARE, StrVal(self.software_name)),
                 Item(SOFTWARE_VERSION, StrVal(self.version)),
                 Item(INTERFACE_VERSION, StrVal(self.interface_version))>>,
               options)

\* a policy that raises whatever the flag says
on_error_message_raise(return_error_dict, parsed_response) ==
    [raised |-> TRUE, exc |-> "ValueError", msg |-> "",
     val |-> Lookup(parsed_response, ERROR_MESSAGE).s]

\* send_request on a response that carries the error-message field: the
\* mapping is returned when return_error_dict is set, else ValueError(message)
on_error_message(return_error_dict, parsed_response) ==
    IF return_error_dict # 0
    THEN Return(parsed_response)
    ELSE [raised |-> TRUE, exc |-> "ValueError", msg |-> "",
          val |-> Lookup(parsed_response, ERROR_MESSAGE).s]

\* a request whose second signature covers the first signature field
signed_request_chained(self, options, env) ==
    LET merged == request_data(self, options, env)
        signature == generate_signature(self.private_key, merged, "SHA1").val
        withOne == SetItem(merged, SIGNATURE_ONE, StrVal(signature))
        signature2 == generate_signature(self.private_key, withOne, "SHA512").val
    IN  SetItem(withOne, SIGNATURE_TWO, StrVal(signature2))

\* send_request up to the request it posts: the request data with the two
\* signatures over it
signed_request(self, options, env) ==
    LET merged == request_data(self, options, env)
        signature == generate_signature(self.private_key, merged, "SHA1").val
        signature2 == generate_signature(self.private_key, merged, "SHA512").val
    IN  SetItem(SetItem(merged, SIGNATURE_ONE, StrVal(signature)),
                SIGNATURE_TWO, StrVal(signature2))

\* a send_request that verifies the response before it looks for the error
\* message
post_request_verify_first(self, data, env) ==
    LET selection == get_endpoint_url(self.test_mode, env.probe1, env.probe2)
        sent == Append(selection.sent, Post(selection.url, data))
        parsed == parse_response(env.content)
        Outcome(result, did_verify) ==
            [result |-> result, sent |-> sent, verified |-> did_verify]
    IN  IF env.status # 200 THEN Outcome(Raise("ConnectionError", ""), FALSE)
        ELSE IF env.content = <<>>
        THEN Outcome(Raise("ValueError", "No content returned"), FALSE)
        ELSE IF parsed.raised THEN Outcome(parsed, FALSE)
        ELSE LET checked == verify_response(self.public_key, parsed.val)
             IN  IF checked.raised THEN Outcome(checked, TRUE)
                 ELSE IF HasKey(parsed.val, ERROR_MESSAGE)
                 THEN Outcome(on_error_message(self.return_error_dict, parsed.val), TRUE)
                 ELSE Outcome(Return(parsed.val), TRUE)

\* a send_request that posts the request once more when the status is not 200
post_request_retrying(self, data, env) ==
    LET selection == get_endpoint_url(self.test_mode, env.probe1, env.probe2)
        sent == Append(selection.sent, Post(selection.url, data))
        parsed == parse_response(env.content)
        Outcome(result, did_verify) ==
            [result |-> result, sent |-> sent, verified |-> did_verify]
    IN  IF env.status # 200
        THEN [result |-> Raise("ConnectionError", ""),
              sent |-> Append(sent, Post(selection.url, data)), verified |-> FALSE]
        ELSE IF env.content = <<>>
        THEN Outcome(Raise("ValueError", "No content returned"), FALSE)
        ELSE IF parsed.raised THEN Outcome(parsed, FALSE)
        ELSE IF HasKey(parsed.val, ERROR_MESSAGE)
        THEN Outcome(on_error_message(self.return_error_dict, parsed.val), FALSE)
        ELSE LET checked == verify_response(self.public_key, parsed.val)
             IN  IF checked.raised THEN Outcome(checked, TRUE)
                 ELSE Outcome(Return(parsed.val), TRUE)

\* a send_request that takes every status for 200
post_request_any_status(self, data, env) ==
    LET selection == get_endpoint_url(self.test_mode, env.probe1, env.probe2)
        sent == Append(selection.sent, Post(selection.url, data))
        parsed == parse_response(env.content)
        Outcome(result, did_verify) ==
            [result |-> result, sent |-> sent, verified |-> did_verify]
    IN  IF env.content = <<>>
        THEN Outcome(Raise("ValueError", "No content returned"), FALSE)
        ELSE IF parsed.raised THEN Outcome(parsed, FALSE)
        ELSE IF HasKey(parsed.val, ERROR_MESSAGE)
        THEN Outcome(on_error_message(self.return_error_dict, parsed.val), FALSE)
        ELSE LET checked == verify_response(self.public_key, parsed.val)
             IN  IF checked.raised THEN Outcome(checked, TRUE)
                 ELSE Outcome(Return(parsed.val), TRUE)

\* send_request from the choice of the endpoint on: its outcome, the POSTs it
\* sent in order, and whether it ran verify_response; data is the signed
\* request and env what the network answers
post_request(self, data, env) ==
    LET selection == get_endpoint_url(self.test_mode, env.probe1, env.probe2)
        sent == Append(selection.sent, Post(selection.url, data))
        parsed == parse_response(env.content)
        Outcome(result, did_verify) ==
            [result |-> result, sent |-> sent, verified |-> did_verify]
    IN  IF env.status # 200 THEN Outcome(Raise("ConnectionError", ""), FALSE)
        ELSE IF env.content = <<>>
        THEN Outcome(Raise("ValueError", "No content returned"), FALSE)
        ELSE IF parsed.raised THEN Outcome(parsed, FALSE)
        ELSE IF HasKey(parsed.val, ERROR_MESSAGE)
        THEN Outcome(on_error_message(self.return_error_dict, parsed.val), FALSE)
        ELSE LET checked == verify_response(self.public_key, parsed.val)
             IN  IF checked.raised THEN Outcome(checked, TRUE)
                 ELSE Outcome(Return(parsed.val), TRUE)

\* send_request(options)
send_request(self, options, env) == post_request(self, signed_request(self, options, env), env)

(***************************************************************************)
(* Countries, the payment token and generate_payment_data.                 *)
(***************************************************************************)
\* the ISO 3166 entries of the registry the model knows: 'FI' is '246' and
\* 'SE' is '752'
CountryRegistry ==
    {[alpha_2 |-> <<70, 73>>, numeric |-> <<50, 52, 54>>],
     [alpha_2 |-> <<83, 69>>, numeric |-> <<55, 53, 50>>]}

\* the builds of the pycountry registry: a lookup that finds nothing raises
\* KeyError or returns None, and a lookup ignores the case of the code or
\* does not
Registries == [raises : BOOLEAN, ignores_case : BOOLEAN]

\* pycountry.countries.get(alpha_2 = code).numeric: the numeric code; when
\* the lookup finds nothing, the KeyError of the lookup or the AttributeError
\* of None.numeric
country_numeric(code, registry) ==
    LET found == {c \in CountryRegistry :
                     \/ c.alpha_2 = code
                     \/ registry.ignores_case /\ c.alpha_2 = upper(code)}
    IN  IF found # {} THEN Return((CHOOSE c \in found : TRUE).numeric)
        ELSE IF registry.raises THEN Raise("KeyError", "")
        ELSE Raise("AttributeError", "")

\* SHA256.new(plaintext).hexdigest(): 64 hex digits that stand for the
\* plaintext (the digest is taken to be free of collisions on its first 31
\* bytes)
SHA256_hexdigest(plaintext) ==
    LET digits == hexlify(<<3>> \o plaintext)
    IN  [i \in 1..64 |-> IF i <= Len(digits) THEN digits[i] ELSE 48]

\* a token that keeps the digits of the digest in lower case
generate_token_lowercase(agreement_code, order_no, payment_timestamp) ==
    LET plaintext == encode_utf8(join(SEMI, <<agreement_code, order_no, payment_timestamp>>))
    IN  get_substring(StrVal(SHA256_hexdigest(plaintext)), 32)

\* generate_token(order_no, payment_timestamp)
generate_token(agreement_code, order_no, payment_timestamp) ==
    LET plaintext == encode_utf8(join(SEMI, <<agreement_code, order_no, payment_timestamp>>))
    IN  upper(get_substring(StrVal(SHA256_hexdigest(plaintext)), 32))

\* the keys generate_payment_data reads without asking whether they are there
RequiredKeys ==
    {DATA.order_number, DATA.locale, DATA.first_name, DATA.last_name, DATA.email,
     DATA.cancel_url, DATA.error_url, DATA.expired_url, DATA.rejected_url,
     DATA.success_url, DATA.success_url_server, DATA.products}

\* data with value under key when the key is not there yet
WithDefault(data, key, value) ==
    IF HasKey(data, key) THEN data ELSE SetItem(data, key, value)

\* values with the amount of data[key], when given, in minor units
WithOrderAmount(values, data, key, field) ==
    IF HasKey(data, key)
    THEN SetItem(values, field, IntVal(format_to_integer(Lookup(data, key))))
    ELSE values

\* values with data[key], when given, cut to length characters
WithTruncated(values, data, key, field, length) ==
    IF HasKey(data, key)
    THEN SetItem(values, field, StrVal(get_substring(Lookup(data, key), length)))
    ELSE values

\* the optional fields of at most 30 characters, in the order of extra_fields
WithExtraFields(values, data) ==
    WithTruncated(WithTruncated(WithTruncated(WithTruncated(
    WithTruncated(WithTruncated(WithTruncated(WithTruncated(values,
        data, DATA.phone, FIELD.buyer_phone_number, 30),
        data, DATA.address, FIELD.delivery_address_line_one, 30),
        data, DATA.address2, FIELD.delivery_address_line_two, 30),
        data, DATA.address3, FIELD.delivery_address_line_three, 30),
        data, DATA.city, FIELD.delivery_address_city, 30),
        data, DATA.postal_code, FIELD.delivery_address_postal_code, 30),
        data, DATA.save_method, FIELD.save_payment_method, 30),
        data, DATA.payment_method, FIELD.payment_method_code, 30)

\* the values of generate_payment_data before the amounts are added; data
\* holds its timestamps and currency is the numeric code that was read
base_values(self, data, currency) ==
    <<Item(FIELD.payment_token,
           StrVal(generate_token(self.agreement_code, Lookup(data, DATA.order_number).s,
                                 Lookup(data, DATA.payment_timestamp).s))),
      Item(FIELD.payment_locale, Lookup(data, DATA.locale)),
      Item(FIELD.payment_timestamp, Lookup(data, DATA.payment_timestamp)),
      Item(FIELD.order_timestamp, Lookup(data, DATA.order_timestamp)),
      Item(MERCHANT_AGREEMENT_CODE, StrVal(self.agreement_code)),
      Item(FIELD.order_number, Lookup(data, DATA.order_number)),
      Item(FIELD.order_currency_code, StrVal(currency)),
      Item(FIELD.order_vat_percentage, StrVal(<<>>)),
      Item(FIELD.buyer_first_name, StrVal(get_substring(Lookup(data, DATA.first_name), 30))),
      Item(FIELD.buyer_last_name, StrVal(get_substring(Lookup(data, DATA.last_name), 30))),
      Item(FIELD.buyer_email_address, StrVal(get_substring(Lookup(data, DATA.email), 100))),
      Item(FIELD.style_code, IF HasKey(data, DATA.style) THEN Lookup(data, DATA.style)
                       ELSE StrVal(<<>>)),
      Item(FIELD.cancel_url, Lookup(data, DATA.cancel_url)),
      Item(FIELD.error_url, Lookup(data, DATA.error_url)),
      Item(FIELD.expired_url, Lookup(data, DATA.expired_url)),
      Item(FIELD.rejected_url, Lookup(data, DATA.rejected_url)),
      Item(FIELD.success_url, Lookup(data, DATA.success_url)),
      Item(FIELD.change_server_to_server_success_url, Lookup(data, DATA.success_url_server)),
      Item(SOFTWARE, StrVal(self.software_name)),
      Item(SOFTWARE_VERSION, StrVal(self.version)),
      Item(INTERFACE_VERSION, StrVal(self.interface_version)),
      Item(FIELD.skip_confirmation_page,
           IF HasKey(data, DATA.skip_confirmation) THEN Lookup(data, DATA.skip_confirmation)
           ELSE IntVal(0))>>

\* the two signatures over values added to them
with_signatures(private_key, values) ==
    SetItem(SetItem(values, SIGNATURE_ONE,
                    StrVal(generate_signature(private_key, values, "SHA1").val)),
            SIGNATURE_TWO, StrVal(generate_signature(private_key, values, "SHA512").val))

\* generate_payment_data(data): products is data['products'], <<>> when the
\* key is missing and else <<the list of items>>; env gives the time and the
\* registry build
generate_payment_data(self, stored_currency, data, products, env) ==
    LET stamped == WithDefault(WithDefault(data, DATA.payment_timestamp, StrVal(env.utcnow)),
                               DATA.order_timestamp, StrVal(env.utcnow))
        currency == currency_getter(stored_currency, env.registry.raises)
        country == IF HasKey(data, DATA.country) /\ isalpha(Lookup(data, DATA.country).s)
                   THEN country_numeric(upper(Lookup(data, DATA.country).s), env.registry)
                   ELSE IF HasKey(data, DATA.country) THEN Return(Lookup(data, DATA.country).s)
                   ELSE Return(<<>>)
        flattened == IF products = <<>> THEN Raise("KeyError", "")
                     ELSE build_product_data(products[1])
        amounts ==
            WithOrderAmount(WithOrderAmount(WithOrderAmount(
                base_values(self, stamped, currency.val),
                data, DATA.amount_gross, FIELD.order_gross_amount),
                data, DATA.amount_net, FIELD.order_net_amount),
                data, DATA.vat_amount, FIELD.order_vat_amount)
        extras == WithExtraFields(amounts, data)
        located == IF HasKey(data, DATA.country)
                   THEN SetItem(extras, FIELD.delivery_address_country_code, StrVal(country.val))
                   ELSE extras
        noted ==
            WithTruncated(WithTruncated(WithTruncated(located,
                data, DATA.customer_id, FIELD.buyer_external_id, 255),
                data, DATA.note, FIELD.order_note, 36),
                data, DATA.dynamic_feedback, FIELD.dynamic_feedback, 1024)
    IN  \* 'if data:' and no return for an empty dict
        IF data = <<>> /\ products = <<>> THEN Return("None")
        ELSE IF {DATA.order_number, DATA.locale} \ DictKeys(data) # {}
        THEN Raise("KeyError", "")
        ELSE IF currency.raised THEN currency
        ELSE IF (RequiredKeys \ {DATA.products}) \ DictKeys(data) # {}
        THEN Raise("KeyError", "")
        ELSE IF country.raised THEN country
        ELSE IF flattened.raised THEN flattened
        ELSE Return(with_signatures(self.private_key, DictUpdate(noted, flattened.val)))

(***************************************************************************)
(* The options of the operations that take a delivery address.             *)
(***************************************************************************)
\* process_payment up to send_request: the options, or what was raised; the
\* country code is looked up as the caller wrote it
process_payment_options(stored_currency, data, env) ==
    LET currency == currency_getter(stored_currency, env.registry.raises)
        stamped == WithDefault(WithDefault(data, FIELD.payment_timestamp, StrVal(env.utcnow)),
                               FIELD.order_timestamp, StrVal(env.utcnow))
        alphabetic == /\ HasKey(data, FIELD.delivery_address_country_code)
                      /\ isalpha(Lookup(data, FIELD.delivery_address_country_code).s)
        country == country_numeric(Lookup(data, FIELD.delivery_address_country_code).s,
                                   env.registry)
    IN  IF currency.raised THEN currency
        ELSE IF alphabetic /\ country.raised THEN country
        ELSE Return(DictUpdate(
                 <<Item(OPERATION, StrVal(OPERATIONS.process_payment)),
                   Item(FIELD.order_currency_code, StrVal(currency.val))>>,
                 IF alphabetic
                 THEN SetItem(stamped, FIELD.delivery_address_country_code, StrVal(country.val))
                 ELSE stamped))

\* generate_payment_link up to send_request: the country code is uppercased
\* for the lookup
generate_payment_link_options(stored_currency, data, env) ==
    LET currency == currency_getter(stored_currency, env.registry.raises)
        alphabetic == /\ HasKey(data, FIELD.delivery_address_country_code)
                      /\ isalpha(Lookup(data, FIELD.delivery_address_country_code).s)
        country == country_numeric(upper(Lookup(data, FIELD.delivery_address_country_code).s),
                                   env.registry)
    IN  IF alphabetic /\ country.raised THEN country
        ELSE IF currency.raised THEN currency
        ELSE Return(DictUpdate(
                 <<Item(OPERATION, StrVal(OPERATIONS.generate_payment_link)),
                   Item(FIELD.order_currency_code, StrVal(currency.val))>>,
                 IF alphabetic
                 THEN SetItem(data, FIELD.delivery_address_country_code, StrVal(country.val))
                 ELSE data))

\* list_saved_payment_methods up to send_request: the data is merged as it is
list_saved_payment_methods_options(data) ==
    Return(DictUpdate(<<Item(OPERATION, StrVal(OPERATIONS.list_saved_payment_methods))>>, data))

(***************************************************************************)
(* State: the client's configuration, the build of the pycountry registry  *)
(* it runs against, and the call in progress.                              *)
(***************************************************************************)
VARIABLES
    _currency,                  \* self._currency
    _test_mode,                 \* self._test_mode
    _return_error_dict,         \* self._return_error_dict
    _RSA_private_key,           \* self._RSA_private_key
    _RSA_verifone_public_key,   \* self._RSA_verifone_public_key
    _agreement_code,            \* self._agreement_code
    _software_name,             \* self._software_name
    _version,                   \* self._version
    _interface_version,         \* self._interface_version
    lookup_raises,              \* pycountry build: an unknown code raises KeyError (else: None)
    pc,                         \* "idle": between calls; "done": a call has ended
    op,                         \* the operation last called
    args,                       \* its arguments
    result,                     \* its outcome: Return(...) or Raise(...)
    sent,                       \* the POSTs it sent, in order
    verified                    \* whether verify_response ran in it

\* what a call of a method that assigns no attribute leaves alone
config == <<_currency, _test_mode, _return_error_dict,
            _RSA_private_key, _RSA_verifone_public_key,
            _agreement_code, _software_name, _version, _interface_version,
            lookup_raises>>

vars == <<_currency, _test_mode, _return_error_dict,
          _RSA_private_key, _RSA_verifone_public_key,
          _agreement_code, _software_name, _version, _interface_version,
          lookup_raises, pc, op, args, result, sent, verified>>

\* the client, as the methods read it
Self ==
    [agreement_code |-> _agreement_code, private_key |-> _RSA_private_key,
     public_key |-> _RSA_verifone_public_key, software_name |-> _software_name,
     version |-> _version, interface_version |-> _interface_version,
     test_mode |-> _test_mode, return_error_dict |-> _return_error_dict]

\* the constructor's arguments other than the currency, the mode and the
\* policy: 'M', 'S', '1' and the default interface version '5'
ConstructedWith(private_key, public_key) ==
    /\ _agreement_code = <<77>>
    /\ _software_name = <<83>>
    /\ _version = <<49>>
    /\ _interface_version = <<53>>
    /\ _RSA_private_key = private_key
    /\ _RSA_verifone_public_key = public_key

\* no call has been made
NoCall ==
    /\ pc = "idle"
    /\ op = "none"
    /\ args = <<>>
    /\ result = Return(<<>>)
    /\ sent = <<>>
    /\ verified = FALSE

(***************************************************************************)
(* Inputs.                                                                 *)
(***************************************************************************)
\* field names "B", "a", "ab": ordinal order differs from case-insensitive
\* order, and one name is a proper prefix of another
FieldNames == {<<66>>, <<97>>, <<97, 98>>}

\* field values of a request: the string "é" and the integer 10
FieldValues == {StrVal(<<233>>), IntVal(10)}

\* the dictionaries of n entries, in every insertion order
DictsOfLen(names, values, n) ==
    {d \in [1..n -> {Item(k, v) : k \in names, v \in values}] :
        \A i, j \in 1..n : i # j => d[i].k # d[j].k}

Dicts(names, values) ==
    UNION {DictsOfLen(names, values, n) : n \in 0..MaxFields}

RequestDicts == Dicts(FieldNames, FieldValues)

\* the mappings whose signature is handed to verify_signature
SignedDicts == {d \in RequestDicts : Len(d) < MaxFields}

SignatureTypes == {"SHA1", "SHA512", "SHA256", "sha1", ""}

\* the ways a signature hex reaches verify_signature
SignatureVariants == {"same", "lowercase", "digit", "shorter", "nonhex", "odd", "empty"}

\* the hex with its last digit replaced by another hexadecimal digit
OtherDigit(hex) ==
    [hex EXCEPT ![Len(hex)] = IF hex[Len(hex)] = 48 THEN 49 ELSE 48]

VarySignature(hex, variant) ==
    CASE variant = "same"      -> hex
      [] variant = "lowercase" -> lower(hex)
      [] variant = "digit"     -> OtherDigit(hex)
      [] variant = "shorter"   -> SubSeq(hex, 1, Len(hex) - 2)
      [] variant = "nonhex"    -> [hex EXCEPT ![1] = 122]
      [] variant = "odd"       -> SubSeq(hex, 1, Len(hex) - 1)
      [] variant = "empty"     -> <<>>

\* the ways a plaintext reaches verify_signature: unchanged, or one character altered
PlaintextVariants == {"same", "first", "last"}

VaryPlaintext(plaintext, variant) ==
    CASE variant = "same"  -> plaintext
      [] variant = "first" -> [plaintext EXCEPT ![1] = (plaintext[1] + 1) % 256]
      [] variant = "last"  -> [plaintext EXCEPT ![Len(plaintext)] = 58]

\* field names and values of a response; a parsed response holds strings only
ResponseNames == {<<66>>, <<97>>}

ResponseValues == {StrVal(<<49>>), StrVal(<<233>>)}

ResponseDicts == Dicts(ResponseNames, ResponseValues)

\* another value than v
OtherValue(v) == CHOOSE w \in ResponseValues : w # v

\* which of the two signatures of a response is not the one the counterparty
\* made, and in what way
SignatureFaults ==
    {[which |-> "none", how |-> "same"]}
        \cup [which : {"one", "two", "both"},
              how : {"lowercase", "digit", "nonhex", "absent"}]

\* a signature field of a response as it arrives
PutSignature(d, name, hex, faulty, how) ==
    IF faulty /\ how = "absent" THEN d
    ELSE SetItem(d, name, StrVal(IF faulty THEN VarySignature(hex, how) ELSE hex))

\* the response the counterparty makes of fields with its private key: the
\* fields, the two signatures over their canonical plaintext and, when given,
\* the shop-order phase field, which is not signed
SignedResponse(private_key, fields, phase) ==
    LET one == generate_signature(private_key, fields, "SHA1").val
        two == generate_signature(private_key, fields, "SHA512").val
        signed == SetItem(SetItem(fields, SIGNATURE_ONE, StrVal(one)),
                          SIGNATURE_TWO, StrVal(two))
    IN  IF phase = <<>> THEN signed ELSE SetItem(signed, SHOP_ORDER_PHASE, phase[1])

\* the response as it arrives: the value of the field named tampered changed,
\* the signatures as the fault says
ArrivedResponse(private_key, fields, phase, tampered, fault) ==
    LET original == SignedResponse(private_key, fields, phase)
        changed == IF tampered = <<>> THEN original
                   ELSE SetItem(original, tampered[1],
                                OtherValue(Lookup(original, tampered[1])))
        one == Lookup(original, SIGNATURE_ONE).s
        two == Lookup(original, SIGNATURE_TWO).s
        without == DelItem(DelItem(changed, SIGNATURE_ONE), SIGNATURE_TWO)
    IN  PutSignature(PutSignature(without, SIGNATURE_ONE, one,
                                  fault.which \in {"one", "both"}, fault.how),
                     SIGNATURE_TWO, two, fault.which \in {"two", "both"}, fault.how)

\* the optional shop-order phase field: <<>> or <<value>>
PhaseOptions == {<<>>} \cup {<<v>> : v \in ResponseValues}

\* the field whose value is changed on the way: <<>> or <<name>>
TamperOptions(fields, phase) ==
    {<<>>} \cup {<<k>> : k \in DictKeys(fields)}
           \cup (IF phase = <<>> THEN {} ELSE {<<SHOP_ORDER_PHASE>>})

(***************************************************************************)
(* Calls of the signing functions.                                         *)
(***************************************************************************)
Call_get_plaintext ==
    /\ pc = "idle"
    /\ \E data \in RequestDicts :
        /\ op' = "get_plaintext"
        /\ args' = [data |-> data]
        /\ result' = Return(get_plaintext(data))
    /\ pc' = "done"
    /\ sent' = <<>>
    /\ verified' = FALSE
    /\ UNCHANGED config

Call_generate_signature ==
    /\ pc = "idle"
    /\ \E data \in RequestDicts, signature_type \in SignatureTypes :
        /\ op' = "generate_signature"
        /\ args' = [data |-> data, signature_type |-> signature_type]
        /\ result' = generate_signature(_RSA_private_key, data, signature_type)
    /\ pc' = "done"
    /\ sent' = <<>>
    /\ verified' = FALSE
    /\ UNCHANGED config

\* verify_signature on a signature that generate_signature made of signed_data
\* with signed_type, the hex, the plaintext and the type varied
Call_verify_signature ==
    /\ pc = "idle"
    /\ \E signed_data \in SignedDicts, signed_type \in {"SHA1", "SHA512"},
          sv \in SignatureVariants, pv \in PlaintextVariants,
          signature_type \in {"SHA1", "SHA512", "SHA123"} :
        LET signed == generate_signature(_RSA_private_key, signed_data, signed_type).val
            signature == VarySignature(signed, sv)
            plaintext == VaryPlaintext(get_plaintext(signed_data), pv)
        IN  /\ op' = "verify_signature"
            /\ args' = [signed_data |-> signed_data, signed_type |-> signed_type,
                        signature |-> signature, signature_type |-> signature_type,
                        plaintext |-> plaintext]
            /\ result' = verify_signature(_RSA_verifone_public_key, signature,
                                          signature_type, plaintext)
    /\ pc' = "done"
    /\ sent' = <<>>
    /\ verified' = FALSE
    /\ UNCHANGED config

\* verify_response on a response the holder of signer_key signed, as it arrives
Call_verify_response ==
    /\ pc = "idle"
    /\ \E fields \in ResponseDicts, signer_key \in KeyIds, phase \in PhaseOptions,
          fault \in SignatureFaults :
        \E tampered \in TamperOptions(fields, phase) :
            LET data == ArrivedResponse(signer_key, fields, phase, tampered, fault)
            IN  /\ op' = "verify_response"
                /\ args' = [data |-> data,
                            original |-> SignedResponse(signer_key, fields, phase),
                            signer_key |-> signer_key, tampered |-> tampered,
                            fault |-> fault]
                /\ result' = verify_response(_RSA_verifone_public_key, data)
    /\ pc' = "done"
    /\ sent' = <<>>
    /\ verified' = TRUE
    /\ UNCHANGED config

\* the caller takes the outcome and goes on
Continue ==
    /\ pc = "done"
    /\ pc' = "idle"
    /\ op' = "none"
    /\ args' = <<>>
    /\ result' = Return(<<>>)
    /\ sent' = <<>>
    /\ verified' = FALSE
    /\ UNCHANGED config

(***************************************************************************)
(* The signing functions on their own: a client with the default           *)
(* configuration and any keys.                                             *)
(***************************************************************************)
InitSign ==
    /\ _currency = _default_currency
    /\ _test_mode = 0
    /\ _return_error_dict = 0
    /\ \E private_key \in KeyIds, public_key \in KeyIds :
          ConstructedWith(private_key, public_key)
    /\ lookup_raises = FALSE
    /\ NoCall

NextSign ==
    \/ Call_get_plaintext
    \/ Call_generate_signature
    \/ Call_verify_signature
    \/ Call_verify_response
    \/ Continue

SpecSign == InitSign /\ [][NextSign]_vars

(***************************************************************************)
(* The client: construction, the currency setter and send_request against  *)
(* the network.  The configuration and the network are explored apart:     *)
(* send_request reads neither the currency nor the registry.               *)
(***************************************************************************)
\* currencies handed to the constructor and to the setter: 'EUR', 'eur',
\* 'SEK', 'abc', '', 'Euro', 'kr3', 'eu1', the euro sign, '123'
CurrencyInputs ==
    {_default_currency, <<101, 117, 114>>, SEK, <<97, 98, 99>>, <<>>,
     <<69, 117, 114, 111>>, <<107, 114, 51>>, <<101, 117, 49>>, <<8364>>,
     <<49, 50, 51>>}

\* codes written to client._currency directly: 'abc', 'XYZ', 'SEK'
StoredOutOfBand == {<<97, 98, 99>>, <<88, 89, 90>>, SEK}

\* 'is-available'
IS_AVAILABLE ==
    <<105, 115, 45, 97, 118, 97, 105, 108, 97, 98, 108, 101>>

\* 'invalid-transaction-number'
INVALID_TRANSACTION_NUMBER ==
    <<105, 110, 118, 97, 108, 105, 100, 45, 116, 114, 97, 110, 115, 97,
      99, 116, 105, 111, 110, 45, 110, 117, 109, 98, 101, 114>>

\* options handed to send_request: an operation, and options that replace a
\* metadata field
SendOptions ==
    {<<Item(OPERATION, StrVal(IS_AVAILABLE))>>,
     <<Item(INTERFACE_VERSION, IntVal(10)), Item(<<66>>, StrVal(<<233>>))>>}

\* the signature faults of the responses send_request meets
SendFaults ==
    {f \in SignatureFaults :
        \/ f.which = "none"
        \/ f.which \in {"one", "two"} /\ f.how \in {"digit", "nonhex"}
        \/ f.which = "both" /\ f.how = "absent"}

\* the fields the counterparty answers with, with or without an error message
ResponseFields ==
    {<<>>, <<Item(<<97>>, StrVal(<<233>>))>>,
     <<Item(ERROR_MESSAGE, StrVal(INVALID_TRANSACTION_NUMBER))>>,
     <<Item(<<97>>, StrVal(<<233>>)),
       Item(ERROR_MESSAGE, StrVal(INVALID_TRANSACTION_NUMBER))>>}

\* response bodies: none, one that is no form data ('x'), and the form
\* encoding of signed responses as they arrive
ResponseBodies ==
    {<<>>, <<120>>}
        \cup {urlencode(ArrivedResponse(k, fields, <<>>, <<>>, fault)) :
                 k \in KeyIds, fields \in ResponseFields, fault \in SendFaults}

\* the clock and the random generator during one send_request: the time
\* '2018-10-26 10:09:48' and randrange(99999)
Clocks ==
    [now : {<<50, 48, 49, 56, 45, 49, 48, 45, 50, 54, 32, 49, 48, 58,
            48, 57, 58, 52, 56>>},
     now_id : {<<50, 48, 49, 56, 49, 48, 50, 54, 49, 48, 48, 57, 52, 56>>},
     rand : {25567}]

\* what the network answers during one send_request: the status of the two
\* probes, and status and body of the response
Networks ==
    {e \in [probe1 : {200, 503}, probe2 : {200, 503},
            status : {200, 204, 500}, content : ResponseBodies] :
        /\ e.probe1 = 200 => e.probe2 = 200
        /\ e.status # 200 => e.probe1 = 200 /\ e.content \in {<<>>, <<120>>}}

Call_send_request ==
    /\ pc = "idle"
    /\ \E options \in SendOptions, clock \in Clocks :
        \E data \in {signed_request(Self, options, clock)}, network \in Networks :
            \E outcome \in {post_request(Self, data, network)} :
                /\ op' = "send_request"
                /\ args' = [options |-> options, clock |-> clock, network |-> network]
                /\ result' = outcome.result
                /\ sent' = outcome.sent
                /\ verified' = outcome.verified
    /\ pc' = "done"
    /\ UNCHANGED config

\* client.currency = value
Set_currency ==
    /\ pc = "idle"
    /\ \E value \in CurrencyInputs :
        LET outcome == currency_setter(value, lookup_raises)
        IN  /\ op' = "currency.setter"
            /\ args' = [value |-> value, before |-> _currency]
            /\ result' = outcome.result
            /\ _currency' = IF outcome.stored = <<>> THEN _currency ELSE outcome.stored[1]
    /\ pc' = "done"
    /\ sent' = <<>>
    /\ verified' = FALSE
    /\ UNCHANGED <<_test_mode, _return_error_dict, _RSA_private_key,
                   _RSA_verifone_public_key, _agreement_code, _software_name,
                   _version, _interface_version, lookup_raises>>

\* client.currency
Get_currency ==
    /\ pc = "idle"
    /\ op' = "currency"
    /\ args' = [before |-> _currency]
    /\ result' = currency_getter(_currency, lookup_raises)
    /\ pc' = "done"
    /\ sent' = <<>>
    /\ verified' = FALSE
    /\ UNCHANGED config

\* a check_currency that stores the code it has checked
Call_check_currency_storing ==
    /\ pc = "idle"
    /\ \E currency \in CurrencyInputs :
        /\ op' = "check_currency"
        /\ args' = [currency |-> currency, before |-> _currency]
        /\ result' = Return(check_currency(currency, lookup_raises))
        /\ _currency' = check_currency(currency, lookup_raises)
    /\ pc' = "done"
    /\ sent' = <<>>
    /\ verified' = FALSE
    /\ UNCHANGED <<_test_mode, _return_error_dict, _RSA_private_key,
                   _RSA_verifone_public_key, _agreement_code, _software_name,
                   _version, _interface_version, lookup_raises>>

\* client.check_currency(currency)
Call_check_currency ==
    /\ pc = "idle"
    /\ \E currency \in CurrencyInputs :
        /\ op' = "check_currency"
        /\ args' = [currency |-> currency, before |-> _currency]
        /\ result' = Return(check_currency(currency, lookup_raises))
    /\ pc' = "done"
    /\ sent' = <<>>
    /\ verified' = FALSE
    /\ UNCHANGED config

\* client._currency = value, not through the setter
Assign_currency_attribute ==
    /\ pc = "idle"
    /\ \E value \in StoredOutOfBand : _currency' = value
    /\ UNCHANGED <<_test_mode, _return_error_dict, _RSA_private_key,
                   _RSA_verifone_public_key, _agreement_code, _software_name,
                   _version, _interface_version, lookup_raises,
                   pc, op, args, result, sent, verified>>

\* client = Verifone(..., currency, test_mode = ..., return_error_dict = ...):
\* a new client takes the place of the one in use
Construct ==
    /\ pc = "idle"
    /\ \E currency \in CurrencyInputs, test_mode \in {0, 1}, return_error_dict \in {0, 1} :
        /\ op' = "__init__"
        /\ args' = [currency |-> currency, before |-> _currency]
        /\ _currency' = check_currency(currency, lookup_raises)
        /\ _test_mode' = test_mode
        /\ _return_error_dict' = return_error_dict
    /\ result' = Return("None")
    /\ pc' = "done"
    /\ sent' = <<>>
    /\ verified' = FALSE
    /\ UNCHANGED <<_RSA_private_key, _RSA_verifone_public_key, _agreement_code,
                   _software_name, _version, _interface_version, lookup_raises>>

\* values assigned to test_mode: 0, 1, 2, 3, -1, None, '' and '1'
TestModeInputs ==
    {IntVal(0), IntVal(1), IntVal(2), IntVal(3), IntVal(-1), NoneVal,
     StrVal(<<>>), StrVal(<<49>>)}

\* client.test_mode = value
Set_test_mode ==
    /\ pc = "idle"
    /\ \E value \in TestModeInputs :
        LET outcome == test_mode_setter(value)
        IN  /\ op' = "test_mode.setter"
            /\ args' = [value |-> value, before |-> _test_mode]
            /\ result' = outcome.result
            /\ _test_mode' = IF outcome.stored = <<>> THEN _test_mode ELSE outcome.stored[1]
    /\ pc' = "done"
    /\ sent' = <<>>
    /\ verified' = FALSE
    /\ UNCHANGED <<_currency, _return_error_dict, _RSA_private_key,
                   _RSA_verifone_public_key, _agreement_code, _software_name,
                   _version, _interface_version, lookup_raises>>

\* client.test_mode
Get_test_mode ==
    /\ pc = "idle"
    /\ op' = "test_mode"
    /\ args' = [before |-> _test_mode]
    /\ result' = Return(_test_mode)
    /\ pc' = "done"
    /\ sent' = <<>>
    /\ verified' = FALSE
    /\ UNCHANGED config

\* the read of an accessor that posts nothing
ReadAccessor(name, url) ==
    /\ pc = "idle"
    /\ op' = name
    /\ args' = [before |-> _test_mode]
    /\ result' = Return(url)
    /\ pc' = "done"
    /\ sent' = <<>>
    /\ verified' = FALSE
    /\ UNCHANGED config

\* client.endpoint
Get_endpoint == ReadAccessor("endpoint", endpoint(_test_mode))

\* client.endpoint2
Get_endpoint2 == ReadAccessor("endpoint2", endpoint2(_test_mode))

\* client.posturl1
Get_posturl1 == ReadAccessor("posturl1", posturl1(_test_mode))

\* client.posturl2
Get_posturl2 == ReadAccessor("posturl2", posturl2(_test_mode))

\* the status the two nodes answer a liveness probe with
ProbeStatuses == {200, 503}

\* client.posturl
Get_posturl ==
    /\ pc = "idle"
    /\ \E probe1 \in ProbeStatuses, probe2 \in ProbeStatuses :
        LET selection == posturl(_test_mode, probe1, probe2)
        IN  /\ op' = "posturl"
            /\ args' = [before |-> _test_mode, probe1 |-> probe1, probe2 |-> probe2]
            /\ result' = Return(selection.url)
            /\ sent' = selection.sent
    /\ pc' = "done"
    /\ verified' = FALSE
    /\ UNCHANGED config

\* client.get_endpoint_url()
Call_get_endpoint_url ==
    /\ pc = "idle"
    /\ \E probe1 \in ProbeStatuses, probe2 \in ProbeStatuses :
        LET selection == get_endpoint_url(_test_mode, probe1, probe2)
        IN  /\ op' = "get_endpoint_url"
            /\ args' = [before |-> _test_mode, probe1 |-> probe1, probe2 |-> probe2]
            /\ result' = Return(selection.url)
            /\ sent' = selection.sent
    /\ pc' = "done"
    /\ verified' = FALSE
    /\ UNCHANGED config

\* the state after Verifone(agreement_code, private key, public key, software,
\* version, currency, test_mode = ..., return_error_dict = ...)
Init ==
    /\ lookup_raises \in BOOLEAN
    /\ \E currency \in CurrencyInputs : _currency = check_currency(currency, lookup_raises)
    /\ _test_mode \in {0, 1}
    /\ _return_error_dict \in {0, 1}
    /\ ConstructedWith(1, 2)
    /\ NoCall

\* the configuration of the client
Next ==
    \/ Construct
    \/ Set_currency
    \/ Get_currency
    \/ Call_check_currency
    \/ Assign_currency_attribute
    \/ Set_test_mode
    \/ Get_test_mode
    \/ Get_endpoint
    \/ Get_endpoint2
    \/ Get_posturl1
    \/ Get_posturl2
    \/ Get_posturl
    \/ Call_get_endpoint_url
    \/ Continue

Spec == Init /\ [][Next]_vars

(***************************************************************************)
(* The data helpers on their own: amounts, truncation, basket items.       *)
(***************************************************************************)
\* the largest amount, in hundredths, and the largest whole amount
MaxCents == 8000

MaxUnits == 100

\* amounts with at most two decimals: floats and ints
Amounts == {FloatVal(c) : c \in 0..MaxCents} \cup {IntVal(n) : n \in 0..MaxUnits}

\* the largest length asked of get_substring
MaxLength == 10

\* values handed to get_substring: 'abc', 'abcd' with an e acute, '', 12345,
\* -7, 79.82 and 1.5
SubstringInputs ==
    {StrVal(<<97, 98, 99>>), StrVal(<<97, 98, 99, 100, 233>>), StrVal(<<>>),
     IntVal(12345), IntVal(-7), FloatVal(7982), FloatVal(150)}

\* the most items of a basket
MaxItems == 2

\* an item name of 31 characters, one more than the basket item name holds
LONG_NAME == [i \in 1..31 |-> 110]

\* basket items: with and without a discount and the optional amounts, and
\* one with a long name
BasketItems ==
    {<<Item(ITEM.name, StrVal(<<65>>)), Item(ITEM.pieces, IntVal(1)),
       Item(ITEM.vat, FloatVal(2400))>>,
     <<Item(ITEM.name, StrVal(<<66, 233>>)), Item(ITEM.pieces, FloatVal(150)),
       Item(ITEM.vat, IntVal(24)), Item(ITEM.discount, FloatVal(1050))>>,
     <<Item(ITEM.name, StrVal(<<65>>)), Item(ITEM.pieces, IntVal(2)),
       Item(ITEM.vat, FloatVal(1400)), Item(ITEM.amount_gross, FloatVal(7982)),
       Item(ITEM.amount_net, FloatVal(29))>>,
     <<Item(ITEM.unit_cost, FloatVal(151)), Item(ITEM.unit_cost_gross, IntVal(3)),
       Item(ITEM.discount, IntVal(0)), Item(ITEM.vat, FloatVal(0)),
       Item(ITEM.pieces, IntVal(1)), Item(ITEM.name, StrVal(<<67>>))>>,
     <<Item(ITEM.name, StrVal(LONG_NAME)), Item(ITEM.pieces, IntVal(1)),
       Item(ITEM.vat, FloatVal(2400)), Item(ITEM.unit_cost, FloatVal(105))>>}

\* the baskets of up to MaxItems items
Baskets == UNION {[1..n -> BasketItems] : n \in 0..MaxItems}

\* the time '2018-10-26 10:09:48', and another one given by the caller
UTCNOW ==
    <<50, 48, 49, 56, 45, 49, 48, 45, 50, 54, 32, 49, 48, 58, 48, 57, 58, 52, 56>>

GIVEN_TIMESTAMP ==
    <<50, 48, 49, 56, 45, 48, 56, 45, 48, 51, 32, 48, 54, 58, 53, 57, 58, 53, 50>>

\* the keys generate_payment_data cannot do without: an order '1', the locale
\* 'fi', a buyer 'T' 'S' with the email 'e' and six times the url 'u'
BasePaymentData ==
    <<Item(DATA.order_number, StrVal(<<49>>)), Item(DATA.locale, StrVal(<<102, 105>>)),
      Item(DATA.first_name, StrVal(<<84>>)), Item(DATA.last_name, StrVal(<<83>>)),
      Item(DATA.email, StrVal(<<101>>)), Item(DATA.cancel_url, StrVal(<<117>>)),
      Item(DATA.error_url, StrVal(<<117>>)), Item(DATA.expired_url, StrVal(<<117>>)),
      Item(DATA.rejected_url, StrVal(<<117>>)), Item(DATA.success_url, StrVal(<<117>>)),
      Item(DATA.success_url_server, StrVal(<<117>>))>>

\* the order amounts: none; 79.82 gross, 64.37 net and 15.45 VAT; 0.29 gross;
\* 5 gross and 1.51 VAT
AmountVariants ==
    {<<>>,
     <<Item(DATA.amount_gross, FloatVal(7982)), Item(DATA.amount_net, FloatVal(6437)),
       Item(DATA.vat_amount, FloatVal(1545))>>,
     <<Item(DATA.amount_gross, FloatVal(29))>>,
     <<Item(DATA.amount_gross, IntVal(5)), Item(DATA.vat_amount, FloatVal(151))>>}

\* the delivery country as the caller writes it: not at all, 'fi', 'FI', '246'
CountryCodes == {<<>>, <<<<102, 105>>>>, <<<<70, 73>>>>, <<<<50, 52, 54>>>>}

\* the payment timestamp: left to the client or given by the caller
TimestampVariants == {<<>>, <<Item(DATA.payment_timestamp, StrVal(GIVEN_TIMESTAMP))>>}

\* the payment data handed to generate_payment_data
PaymentData ==
    {BasePaymentData \o amounts \o timestamp
         \o (IF country = <<>> THEN <<>> ELSE <<Item(DATA.country, StrVal(country[1]))>>) :
        amounts \in AmountVariants, timestamp \in TimestampVariants,
        country \in CountryCodes}

\* data['products'] of the payment data: an empty basket, or one item with
\* its amounts
PaymentProducts ==
    {<<<<>>>>,
     <<<<(CHOOSE item \in BasketItems : HasKey(item, ITEM.amount_gross))>>>>}

Call_generate_payment_data ==
    /\ pc = "idle"
    /\ \E data \in PaymentData, products \in PaymentProducts, ignores_case \in BOOLEAN :
        LET env == [utcnow |-> UTCNOW,
                    registry |-> [raises |-> lookup_raises, ignores_case |-> ignores_case]]
        IN  /\ op' = "generate_payment_data"
            /\ args' = [data |-> data, products |-> products, env |-> env]
            /\ result' = generate_payment_data(Self, _currency, data, products, env)
    /\ pc' = "done"
    /\ sent' = <<>>
    /\ verified' = FALSE
    /\ UNCHANGED config

Call_format_to_integer ==
    /\ pc = "idle"
    /\ \E number \in Amounts :
        /\ op' = "format_to_integer"
        /\ args' = [number |-> number]
        /\ result' = Return(format_to_integer(number))
    /\ pc' = "done"
    /\ sent' = <<>>
    /\ verified' = FALSE
    /\ UNCHANGED config

Call_get_substring ==
    /\ pc = "idle"
    /\ \E string \in SubstringInputs, length \in 0..MaxLength :
        /\ op' = "get_substring"
        /\ args' = [string |-> string, length |-> length]
        /\ result' = Return(get_substring(string, length))
    /\ pc' = "done"
    /\ sent' = <<>>
    /\ verified' = FALSE
    /\ UNCHANGED config

Call_build_product_data ==
    /\ pc = "idle"
    /\ \E data \in Baskets :
        /\ op' = "build_product_data"
        /\ args' = [data |-> data]
        /\ result' = build_product_data(data)
    /\ pc' = "done"
    /\ sent' = <<>>
    /\ verified' = FALSE
    /\ UNCHANGED config

\* a client with the default configuration
InitData ==
    /\ lookup_raises \in BOOLEAN
    /\ _currency = check_currency(_default_currency, lookup_raises)
    /\ _test_mode = 0
    /\ _return_error_dict = 0
    /\ ConstructedWith(1, 2)
    /\ NoCall

NextData ==
    \/ Call_format_to_integer
    \/ Call_get_substring
    \/ Call_build_product_data
    \/ Call_generate_payment_data
    \/ Continue

SpecData == InitData /\ [][NextData]_vars

(***************************************************************************)
(* The operations that take a delivery address, against the network.       *)
(***************************************************************************)
\* the data of an operation: an order '1' with the delivery country
OperationData ==
    {<<Item(FIELD.order_number, StrVal(<<49>>))>>
         \o (IF country = <<>> THEN <<>>
             ELSE <<Item(FIELD.delivery_address_country_code, StrVal(country[1]))>>) :
        country \in CountryCodes}

\* what the network answers an operation: a response signed by the
\* counterparty, or the status 500
OperationNetworks ==
    {[probe1 |-> 200, probe2 |-> 200, status |-> 200,
      content |-> urlencode(ArrivedResponse(2, <<Item(<<97>>, StrVal(<<233>>))>>, <<>>, <<>>,
                                            [which |-> "none", how |-> "same"]))],
     [probe1 |-> 200, probe2 |-> 200, status |-> 500, content |-> <<>>]}

\* the call of an operation: what it raised before send_request, or
\* send_request(options)
CallOperation(name, data, env, options) ==
    /\ op' = name
    /\ \E clock \in Clocks, network \in OperationNetworks :
        /\ args' = [data |-> data, env |-> env, clock |-> clock, network |-> network]
        /\ IF options.raised
           THEN /\ result' = options
                /\ sent' = <<>>
                /\ verified' = FALSE
           ELSE \E outcome \in {post_request(Self, signed_request(Self, options.val, clock),
                                             network)} :
                    /\ result' = outcome.result
                    /\ sent' = outcome.sent
                    /\ verified' = outcome.verified
    /\ pc' = "done"
    /\ UNCHANGED config

\* the time and the registry build during one call
OperationEnvs ==
    {[utcnow |-> UTCNOW, registry |-> [raises |-> lookup_raises, ignores_case |-> c]] :
        c \in BOOLEAN}

Call_process_payment ==
    /\ pc = "idle"
    /\ \E data \in OperationData, env \in OperationEnvs :
        CallOperation("process_payment", data, env,
                      process_payment_options(_currency, data, env))

Call_generate_payment_link ==
    /\ pc = "idle"
    /\ \E data \in OperationData, env \in OperationEnvs :
        CallOperation("generate_payment_link", data, env,
                      generate_payment_link_options(_currency, data, env))

Call_list_saved_payment_methods ==
    /\ pc = "idle"
    /\ \E data \in OperationData, env \in OperationEnvs :
        CallOperation("list_saved_payment_methods", data, env,
                      list_saved_payment_methods_options(data))

\* the client against the network: the default currency, either mode and
\* either error policy
InitNet ==
    /\ lookup_raises = FALSE
    /\ _currency = check_currency(_default_currency, lookup_raises)
    /\ _test_mode \in {0, 1}
    /\ _return_error_dict \in {0, 1}
    /\ ConstructedWith(1, 2)
    /\ NoCall

NextNet ==
    \/ Call_send_request
    \/ Call_process_payment
    \/ Call_generate_payment_link
    \/ Call_list_saved_payment_methods
    \/ Continue

SpecNet == InitNet /\ [][NextNet]_vars

(***************************************************************************)
(* Properties of the canonical plaintext.                                  *)
(***************************************************************************)
\* the same items in every order
Reorderings(d) ==
    {e \in [1..Len(d) -> {d[i] : i \in 1..Len(d)}] :
        \A i, j \in 1..Len(d) : i # j => e[i] # e[j]}

\* ordinal order, stated by the first position where two strings differ
OrdinalLess(a, b) ==
    \E i \in 1..Len(b) :
        /\ Len(a) >= i - 1
        /\ \A j \in 1..(i - 1) : a[j] = b[j]
        /\ (Len(a) < i \/ a[i] < b[i])

\* the items in ascending ordinal order of key
Ascending(d) ==
    CHOOSE e \in Reorderings(d) :
        \A i \in 1..(Len(e) - 1) : OrdinalLess(e[i].k, e[i + 1].k)

\* each item as key=str(value) followed by ';'
RECURSIVE EachFollowedBySemicolon(_)
EachFollowedBySemicolon(e) ==
    IF e = <<>> THEN <<>>
    ELSE e[1].k \o <<61>> \o str(e[1].v) \o <<59>> \o EachFollowedBySemicolon(Tail(e))

GetPlaintextDone == pc = "done" /\ op = "get_plaintext"

\* C1: get_plaintext is independent of construction order: every mapping that
\* holds the same key/value pairs as the argument, inserted in whatever order,
\* has the plaintext that was returned.
C1_OrderIndependent ==
    GetPlaintextDone =>
        \A e \in Reorderings(args.data) : get_plaintext(e) = result.val

\* three entries inserted in descending order of key
C1_Witness ==
    /\ GetPlaintextDone
    /\ Len(args.data) = 3
    /\ args.data[1].k = <<97, 98>>
    /\ args.data[2].k = <<97>>
    /\ args.data[3].k = <<66>>

\* C2: get_plaintext returns, without error, the UTF-8 encoding of the entries
\* in ascending ordinal order of key, each as key=str(value) followed by ';';
\* the empty mapping gives exactly ';' ({a: 'é', B: 10} gives 'B=10;a=é;').
C2_Canonical ==
    GetPlaintextDone =>
        /\ ~result.raised
        /\ IF args.data = <<>>
           THEN result.val = <<59>>
           ELSE decode_utf8(result.val) = EachFollowedBySemicolon(Ascending(args.data))
        /\ args.data = <<Item(<<97>>, StrVal(<<233>>)), Item(<<66>>, IntVal(10))>>
              => result.val = <<66, 61, 49, 48, 59, 97, 61, 195, 169, 59>>

\* a mapping with a non-ASCII string and an integer, keys not in order
C2_Witness ==
    /\ GetPlaintextDone
    /\ args.data = <<Item(<<97>>, StrVal(<<233>>)), Item(<<66>>, IntVal(10))>>
    /\ ~result.raised

\* the empty mapping
C2_WitnessEmpty == GetPlaintextDone /\ args.data = <<>> /\ result.val = <<59>>

(***************************************************************************)
(* Properties of the signer and the verifier.                              *)
(***************************************************************************)
GenerateSignatureDone == pc = "done" /\ op = "generate_signature"

VerifySignatureDone == pc = "done" /\ op = "verify_signature"

\* the client verifies with the public key of its own signing pair
MatchingKeyPair == _RSA_private_key = _RSA_verifone_public_key

\* the hex generate_signature made for the signed data and type of the call
SignedHex == generate_signature(_RSA_private_key, args.signed_data, args.signed_type).val

SameAsSigned ==
    /\ args.signature = SignedHex
    /\ args.signature_type = args.signed_type
    /\ args.plaintext = get_plaintext(args.signed_data)

\* C6 as stated: with a matching key pair verify_signature returns true for the
\* signature, type and plaintext of the signing, and false when the plaintext,
\* the signature hex or the digest type differs.
C6_AsStated ==
    (VerifySignatureDone /\ MatchingKeyPair) =>
        result = Return(SameAsSigned)

\* C6, amended: with a matching key pair verify_signature returns true for the
\* signature, type and plaintext of the signing; for a well-formed hex it
\* returns false when the plaintext or the digest type differs or the hex
\* decodes to other bytes, and true for a hex that differs only in the case
\* of its digits; a hex that is not well-formed gives no false: the call
\* raises under SHA1 and SHA512.
C6_RoundTrip ==
    (VerifySignatureDone /\ MatchingKeyPair) =>
        /\ SameAsSigned => result = Return(TRUE)
        /\ WellFormedHex(args.signature) =>
              result = Return(/\ unhexlify(args.signature) = unhexlify(SignedHex)
                              /\ args.signature_type = args.signed_type
                              /\ args.plaintext = get_plaintext(args.signed_data))
        /\ ~WellFormedHex(args.signature) =>
              IF args.signature_type \in {"SHA1", "SHA512"}
              THEN result.raised
              ELSE result = Return(FALSE)

\* a round trip, and a rejected altered plaintext
C6_Witness ==
    /\ VerifySignatureDone
    /\ MatchingKeyPair
    /\ SameAsSigned
    /\ args.signed_type = "SHA512"
    /\ Len(args.signed_data) = 2
    /\ result = Return(TRUE)

C6_WitnessAltered ==
    /\ VerifySignatureDone
    /\ MatchingKeyPair
    /\ args.signature = SignedHex
    /\ args.signature_type = args.signed_type
    /\ args.plaintext # get_plaintext(args.signed_data)
    /\ result = Return(FALSE)

\* C8: verify_signature never raises: it returns false for a malformed hex, a
\* signature of the wrong length, a signature that does not match and a
\* digest type that is neither SHA1 nor SHA512.
C8_NeverRaises ==
    VerifySignatureDone =>
        /\ ~result.raised
        /\ (\/ ~WellFormedHex(args.signature)
            \/ Len(args.signature) # Len(SignedHex)
            \/ args.signature_type \notin {"SHA1", "SHA512"}) => result = Return(FALSE)

VerifyResponseDone == pc = "done" /\ op = "verify_response"

\* the signature field of the response is the signature, under the key pair of
\* the client's public key, of the digest of the remaining fields' plaintext
SignatureVerifies(data, name, alg) ==
    /\ HasKey(data, name)
    /\ WellFormedHex(Lookup(data, name).s)
    /\ unhexlify(Lookup(data, name).s)
          = PKCS1_sign(_RSA_verifone_public_key,
                       [alg |-> alg, msg |-> get_plaintext(SignedFields(data))])

BothVerify(data) ==
    /\ SignatureVerifies(data, SIGNATURE_ONE, "SHA1")
    /\ SignatureVerifies(data, SIGNATURE_TWO, "SHA512")

CarriesBothSignatures(data) == HasKey(data, SIGNATURE_ONE) /\ HasKey(data, SIGNATURE_TWO)

\* C3: verify_response returns True only when both the SHA-1 and the SHA-512
\* signature verify against the plaintext of the remaining fields; when either
\* fails it raises ValueError('SignatureVerificationFailed'); it never returns
\* a false result.
C3_BothOrFailed ==
    (VerifyResponseDone /\ CarriesBothSignatures(args.data)) =>
        IF BothVerify(args.data)
        THEN result = Return(TRUE)
        ELSE result = Raise("ValueError", "SignatureVerificationFailed")

\* what holds of C3 in the code: acceptance needs both signatures, and every
\* other outcome is an exception
C3_AcceptsOnlyBoth ==
    VerifyResponseDone =>
        IF BothVerify(args.data) THEN result = Return(TRUE) ELSE result.raised

\* the counterparty of the client's public key signed the response, and both
\* signatures arrive as made
CorrectlySigned ==
    /\ args.signer_key = _RSA_verifone_public_key
    /\ args.fault.which = "none"

\* C5 as stated: a correctly signed response passes unmodified, and raises
\* when the value of any one of its fields is changed under the original
\* signatures.
C5_AsStated ==
    (VerifyResponseDone /\ CorrectlySigned) =>
        IF args.tampered = <<>> THEN result = Return(TRUE) ELSE result.raised

\* C5, amended: a correctly signed response (string values, as parse_response
\* yields them) passes unmodified, and raises SignatureVerificationFailed when
\* the value of any one of its signed fields is changed under the original
\* signatures; the shop-order phase field is not signed, and a change of its
\* value passes.
C5_TamperedSignedField ==
    (VerifyResponseDone /\ CorrectlySigned) =>
        IF args.tampered = <<>> \/ args.tampered = <<SHOP_ORDER_PHASE>>
        THEN result = Return(TRUE)
        ELSE result = Raise("ValueError", "SignatureVerificationFailed")

\* a correctly signed response of two fields and the phase field, one signed
\* value changed
C5_Witness ==
    /\ VerifyResponseDone
    /\ CorrectlySigned
    /\ args.tampered = <<<<97>>>>
    /\ Len(args.data) = 5
    /\ Lookup(args.data, <<97>>) # Lookup(args.original, <<97>>)
    /\ result.raised

\* the same kind of response, unmodified
C5_WitnessUnmodified ==
    /\ VerifyResponseDone
    /\ CorrectlySigned
    /\ args.tampered = <<>>
    /\ DictEq(args.data, args.original)
    /\ Len(args.data) = 5
    /\ result = Return(TRUE)

(***************************************************************************)
(* Properties of send_request.                                             *)
(***************************************************************************)
SendRequestDone == pc = "done" /\ op = "send_request"

\* the response send_request got: status 200 and a body
Answered == args.network.status = 200 /\ args.network.content # <<>>

\* the mapping the body of the response parses to
Parsed == parse_response(args.network.content)

NoErrorMessage == Answered /\ ~Parsed.raised /\ ~HasKey(Parsed.val, ERROR_MESSAGE)

CarriesErrorMessage == Answered /\ ~Parsed.raised /\ HasKey(Parsed.val, ERROR_MESSAGE)

\* C4: for a response without the error-message field, send_request returns
\* the parsed mapping only after verify_response has accepted both signatures;
\* when either signature fails the call raises, and nothing of the response
\* is returned.
C4_VerifiedBeforeReturned ==
    (SendRequestDone /\ NoErrorMessage) =>
        IF BothVerify(Parsed.val)
        THEN result = Return(Parsed.val) /\ verified
        ELSE result.raised /\ result.val = <<>>

\* a response with a payload field whose SHA-1 signature verifies and whose
\* SHA-512 signature does not: the call raises
C4_Witness ==
    /\ SendRequestDone
    /\ NoErrorMessage
    /\ HasKey(Parsed.val, <<97>>)
    /\ SignatureVerifies(Parsed.val, SIGNATURE_ONE, "SHA1")
    /\ ~SignatureVerifies(Parsed.val, SIGNATURE_TWO, "SHA512")
    /\ verified
    /\ result = Raise("ValueError", "SignatureVerificationFailed")

\* a response with a payload field and both signatures good: it is returned
C4_WitnessReturned ==
    /\ SendRequestDone
    /\ NoErrorMessage
    /\ HasKey(Parsed.val, <<97>>)
    /\ BothVerify(Parsed.val)
    /\ verified
    /\ result = Return(Parsed.val)

\* C7: on a response that carries the error-message field, send_request
\* raises ValueError carrying the error message when return_error_dict is off,
\* and returns the parsed mapping, error-message field included, when it is
\* on; the outcome depends on the response and on that flag only.
C7_ErrorPolicy ==
    (SendRequestDone /\ CarriesErrorMessage) =>
        IF _return_error_dict = 0
        THEN /\ result.raised
             /\ result.exc = "ValueError"
             /\ result.val = Lookup(Parsed.val, ERROR_MESSAGE).s
        ELSE /\ result = Return(Parsed.val)
             /\ HasKey(result.val, ERROR_MESSAGE)

\* an error response met with the policy off: the call raises
C7_Witness ==
    /\ SendRequestDone
    /\ CarriesErrorMessage
    /\ _return_error_dict = 0
    /\ result.raised
    /\ result.val = INVALID_TRANSACTION_NUMBER

\* an error response met with the policy on: the mapping is returned
C7_WitnessReturned ==
    /\ SendRequestDone
    /\ CarriesErrorMessage
    /\ _return_error_dict = 1
    /\ ~result.raised
    /\ Lookup(result.val, ERROR_MESSAGE).s = INVALID_TRANSACTION_NUMBER

(***************************************************************************)
(* Properties of the currency setter.                                      *)
(***************************************************************************)
SetCurrencyDone == pc = "done" /\ op = "currency.setter"

\* three letters that are, uppercased, a code of the registry
RecognizedCode(value) ==
    /\ Len(value) = 3
    /\ isalpha(value)
    /\ Registered(upper(value))

\* C10: the currency setter raises for every value that is empty, not 3
\* characters long, not all letters, or not a recognized ISO 4217 code; for
\* every other value it stores the uppercased code.
C10_SetterRejects ==
    SetCurrencyDone =>
        IF RecognizedCode(args.value)
        THEN ~result.raised /\ _currency = upper(args.value)
        ELSE result.raised

\* what holds of C10 whatever the registry build: the malformed values raise
\* and leave the currency alone, the recognized ones are stored uppercased
C10_MalformedRejected ==
    SetCurrencyDone =>
        IF RecognizedCode(args.value)
        THEN ~result.raised /\ _currency = upper(args.value)
        ELSE IF Len(args.value) # 3 \/ ~isalpha(args.value)
        THEN result.raised /\ result.exc = "ValueError" /\ _currency = args.before
        ELSE result.raised \/ _currency = upper(args.value)

(***************************************************************************)
(* Properties of the constructor, check_currency and the currency getter.  *)
(***************************************************************************)
CheckCurrencyDone == pc = "done" /\ op = "check_currency"

ConstructDone == pc = "done" /\ op = "__init__"

GetCurrencyDone == pc = "done" /\ op = "currency"

\* C11: constructing a client, or calling check_currency, with a currency that
\* is empty, not 3 characters long, not all letters or not a recognized
\* ISO 4217 code never raises and yields the default 'EUR'; check_currency
\* does not change the stored currency.
C11_FallsBackToDefault ==
    /\ ConstructDone =>
          /\ ~result.raised
          /\ ~RecognizedCode(args.currency) => _currency = _default_currency
    /\ CheckCurrencyDone =>
          /\ ~result.raised
          /\ ~RecognizedCode(args.currency) => result.val = _default_currency
          /\ _currency = args.before

\* what holds of C11 whatever the registry build: no call raises, the
\* malformed currencies give 'EUR', the recognized ones their uppercased code,
\* and check_currency leaves the stored currency alone
C11_MalformedFallBack ==
    /\ ConstructDone =>
          /\ ~result.raised
          /\ (Len(args.currency) # 3 \/ ~isalpha(args.currency))
                => _currency = _default_currency
          /\ RecognizedCode(args.currency) => _currency = upper(args.currency)
    /\ CheckCurrencyDone =>
          /\ ~result.raised
          /\ (Len(args.currency) # 3 \/ ~isalpha(args.currency))
                => result.val = _default_currency
          /\ RecognizedCode(args.currency) => result.val = upper(args.currency)
          /\ _currency = args.before

\* the numeric ISO 4217 code of the two registered codes: '978' and '752'
NumericCode(code) ==
    IF code = <<69, 85, 82>> THEN <<57, 55, 56>> ELSE <<55, 53, 50>>

\* C12: every read of the currency property validates the stored code against
\* the registry and raises ValueError when it does not resolve, also when the
\* code was written to the attribute directly; no value is returned for an
\* unregistered stored code.
C12_GetterRevalidates ==
    (GetCurrencyDone /\ ~Registered(_currency)) =>
        /\ result = Raise("ValueError", "Incorrect currency")
        /\ _currency = args.before

\* a read after 'abc' was written to the attribute, in the build whose lookup
\* returns None
C12_Witness ==
    /\ GetCurrencyDone
    /\ _currency = <<97, 98, 99>>
    /\ ~lookup_raises
    /\ result.raised

\* the same read in the build whose lookup raises KeyError
C12_WitnessKeyError ==
    /\ GetCurrencyDone
    /\ _currency = <<88, 89, 90>>
    /\ lookup_raises
    /\ result.raised

\* C13: the setter accepts a registered code in any case and stores it
\* uppercased; a read of the property returns the numeric code of the stored
\* code and does not change it.
C13_StoredUpperReadNumeric ==
    /\ (SetCurrencyDone /\ RecognizedCode(args.value)) =>
          /\ ~result.raised
          /\ _currency = upper(args.value)
    /\ (GetCurrencyDone /\ Registered(_currency)) =>
          /\ result = Return(NumericCode(_currency))
          /\ _currency = args.before

\* 'eur' was assigned and 'EUR' is stored
C13_Witness ==
    /\ SetCurrencyDone
    /\ args.value = <<101, 117, 114>>
    /\ args.before = SEK
    /\ _currency = <<69, 85, 82>>

\* a read of the stored 'EUR' returns '978'
C13_WitnessRead ==
    /\ GetCurrencyDone
    /\ _currency = <<69, 85, 82>>
    /\ result = Return(<<57, 55, 56>>)

(***************************************************************************)
(* Properties of test_mode and of the endpoint accessors.                  *)
(***************************************************************************)
SetTestModeDone == pc = "done" /\ op = "test_mode.setter"

GetTestModeDone == pc = "done" /\ op = "test_mode"

C14_WitnessNone ==
    /\ SetTestModeDone
    /\ args.value = NoneVal
    /\ args.before = 1
    /\ _test_mode = 0

AccessorDone ==
    pc = "done" /\ op \in {"endpoint", "endpoint2", "posturl1", "posturl2", "posturl"}

\* C15: with test mode on every endpoint accessor returns the URL of the one
\* test host; with test mode off endpoint and posturl1 return the URL of live
\* node 1 and endpoint2 and posturl2 that of live node 2 (posturl one of the
\* two); a read after test_mode was switched gives the other result.
C15_EndpointsFollowTestMode ==
    AccessorDone =>
        IF _test_mode = 1
        THEN result.val = IF op \in {"endpoint", "endpoint2"}
                          THEN "https://epayment.test.point.fi/pw/serverinterface"
                          ELSE "https://epayment.test.point.fi/pw/payment"
        ELSE /\ op = "endpoint" =>
                   result.val = "https://epayment1.point.fi/pw/serverinterface"
             /\ op = "endpoint2" =>
                   result.val = "https://epayment2.point.fi/pw/serverinterface"
             /\ op = "posturl1" => result.val = "https://epayment1.point.fi/pw/payment"
             /\ op = "posturl2" => result.val = "https://epayment2.point.fi/pw/payment"
             /\ op = "posturl" =>
                   result.val \in {"https://epayment1.point.fi/pw/payment",
                                   "https://epayment2.point.fi/pw/payment"}

\* endpoint2 read in test mode
C15_Witness ==
    /\ AccessorDone
    /\ op = "endpoint2"
    /\ _test_mode = 1
    /\ result.val = "https://epayment.test.point.fi/pw/serverinterface"

\* posturl2 read in live mode
C15_WitnessLive ==
    /\ AccessorDone
    /\ op = "posturl2"
    /\ _test_mode = 0
    /\ result.val = "https://epayment2.point.fi/pw/payment"

(***************************************************************************)
(* Properties of the data helpers.                                         *)
(***************************************************************************)
FormatToIntegerDone == pc = "done" /\ op = "format_to_integer"

\* the amount in minor units: the hundredths of a float written with two
\* decimals, a hundred times an int
MinorUnits(number) == IF number.t = "float" THEN number.n ELSE 100 * number.n

GeneratePaymentDataDone == pc = "done" /\ op = "generate_payment_data"

\* the order amounts of the payment data and the fields they are emitted as
OrderAmounts ==
    {<<DATA.amount_gross, FIELD.order_gross_amount>>, <<DATA.amount_net, FIELD.order_net_amount>>,
     <<DATA.vat_amount, FIELD.order_vat_amount>>}

\* C16: format_to_integer(x) is the integer round(x * 100), the amount in
\* minor units, for every amount x with at most two decimals (79.82 gives
\* 7982, 1.51 gives 151, 0.29 gives 29); generate_payment_data emits the
\* gross, net and VAT order amounts as these integers.
C16_MinorUnits ==
    /\ FormatToIntegerDone => result = Return(MinorUnits(args.number))
    /\ (GeneratePaymentDataDone /\ ~result.raised) =>
          \A amount \in OrderAmounts :
              IF HasKey(args.data, amount[1])
              THEN /\ HasKey(result.val, amount[2])
                   /\ Lookup(result.val, amount[2])
                         = IntVal(MinorUnits(Lookup(args.data, amount[1])))
              ELSE ~HasKey(result.val, amount[2])

\* an amount whose product with 100 lies below the minor units before it is
\* rounded
C16_Witness ==
    /\ FormatToIntegerDone
    /\ args.number.t = "float"
    /\ int(TimesHundred(NearestFloat(args.number.n, 100))) < args.number.n
    /\ result = Return(args.number.n)

\* payment data with the amounts 79.82, 64.37 and 15.45
C16_WitnessPaymentData ==
    /\ GeneratePaymentDataDone
    /\ ~result.raised
    /\ HasKey(args.data, DATA.amount_net)
    /\ Lookup(args.data, DATA.amount_gross) = FloatVal(7982)
    /\ Lookup(result.val, FIELD.order_gross_amount) = IntVal(7982)
    /\ Lookup(result.val, FIELD.order_net_amount) = IntVal(6437)
    /\ Lookup(result.val, FIELD.order_vat_amount) = IntVal(1545)

GetSubstringDone == pc = "done" /\ op = "get_substring"

\* p is a prefix of text
IsPrefix(p, text) == Len(p) <= Len(text) /\ p = SubSeq(text, 1, Len(p))

\* C17: get_substring(value, maxLen) never raises; it returns the first maxLen
\* characters of str(value) when that is longer than maxLen and str(value)
\* otherwise: a prefix of str(value) of length at most maxLen, which a second
\* application leaves as it is.
C17_Truncates ==
    GetSubstringDone =>
        LET text == str(args.string)
        IN  /\ ~result.raised
            /\ IsPrefix(result.val, text)
            /\ Len(result.val) = IF Len(text) > args.length THEN args.length
                                 ELSE Len(text)
            /\ get_substring(StrVal(result.val), args.length) = result.val

\* substring(12345, 3) is '123'
C17_Witness ==
    /\ GetSubstringDone
    /\ args.string = IntVal(12345)
    /\ args.length = 3
    /\ result.val = <<49, 50, 51>>

\* substring('abc', 10) is 'abc'
C17_WitnessShort ==
    /\ GetSubstringDone
    /\ args.string = StrVal(<<97, 98, 99>>)
    /\ args.length = 10
    /\ result.val = <<97, 98, 99>>

BuildProductDataDone == pc = "done" /\ op = "build_product_data"

\* the four fields every item is flattened to
ItemFields == {BI.name, BI.unit_count, BI.vat_percentage, BI.discount_percentage}

\* the field names of the indexes in range
IndexedFields(range) == {field \o DecimalDigits(i) : field \in ItemFields, i \in range}

\* C18: build_product_data flattens the item at position i (0-based) into
\* fields whose names end in '-i': for n items the result holds the name,
\* unit-count, vat-percentage and discount-percentage fields of exactly the
\* indexes 0..n-1, the fields of index i carry the values of the i-th item,
\* and an empty list gives an empty mapping.
C18_IndexedByPosition ==
    BuildProductDataDone =>
        LET n == Len(args.data)
            product_data == result.val
        IN  /\ ~result.raised
            /\ DictKeys(product_data) \cap IndexedFields(0..(MaxItems + 2))
                  = IndexedFields(0..(n - 1))
            /\ \A i \in 0..(n - 1) :
                  LET item == args.data[i + 1]
                      index == DecimalDigits(i)
                  IN  /\ Lookup(product_data, BI.name \o index) = Lookup(item, ITEM.name)
                      /\ Lookup(product_data, BI.unit_count \o index)
                            = Lookup(item, ITEM.pieces)
                      /\ Lookup(product_data, BI.vat_percentage \o index)
                            = IntVal(MinorUnits(Lookup(item, ITEM.vat)))
                      /\ Lookup(product_data, BI.discount_percentage \o index)
                            = IF HasKey(item, ITEM.discount)
                              THEN IntVal(MinorUnits(Lookup(item, ITEM.discount)))
                              ELSE IntVal(0)
            /\ n = 0 => product_data = <<>>

\* two different items: each is found under its own index
C18_Witness ==
    /\ BuildProductDataDone
    /\ Len(args.data) = 2
    /\ args.data[1] # args.data[2]
    /\ Lookup(args.data[1], ITEM.name) # Lookup(args.data[2], ITEM.name)
    /\ Lookup(result.val, BI.name \o <<48>>) = Lookup(args.data[1], ITEM.name)
    /\ Lookup(result.val, BI.name \o <<49>>) = Lookup(args.data[2], ITEM.name)

\* the empty list
C18_WitnessEmpty ==
    /\ BuildProductDataDone
    /\ args.data = <<>>
    /\ result = Return(<<>>)

(***************************************************************************)
(* Properties of send_request: the status and the body of the response.    *)
(***************************************************************************)
\* send_request raised exc before the response was verified, and returned
\* nothing
RaisedUnverified(exc, msg) ==
    /\ result = Raise(exc, msg)
    /\ ~verified

\* C19 as stated: send_request raises ConnectionError whenever the status of
\* the response is not 2xx, and ValueError('No content returned') whenever
\* the status is 2xx and the body is empty; the response is not verified and
\* nothing is returned.
C19_AsStated ==
    SendRequestDone =>
        /\ args.network.status \notin 200..299 => RaisedUnverified("ConnectionError", "")
        /\ (args.network.status \in 200..299 /\ args.network.content = <<>>)
              => RaisedUnverified("ValueError", "No content returned")

\* C19, amended: send_request raises ConnectionError whenever the status of
\* the response is not 200, other 2xx statuses included, and
\* ValueError('No content returned') whenever the status is 200 and the body
\* is empty; the response is not verified and nothing is returned.
C19_Not200 ==
    SendRequestDone =>
        /\ args.network.status # 200 => RaisedUnverified("ConnectionError", "")
        /\ (args.network.status = 200 /\ args.network.content = <<>>)
              => RaisedUnverified("ValueError", "No content returned")

\* status 204 and no body: ConnectionError
C19_Witness ==
    /\ SendRequestDone
    /\ args.network.status = 204
    /\ args.network.content = <<>>
    /\ result = Raise("ConnectionError", "")

\* status 200 and no body: no content
C19_WitnessEmpty ==
    /\ SendRequestDone
    /\ args.network.status = 200
    /\ args.network.content = <<>>
    /\ result = Raise("ValueError", "No content returned")

(***************************************************************************)
(* Properties of the delivery country.                                     *)
(***************************************************************************)
OperationWithCountryDone ==
    /\ pc = "done"
    /\ op \in {"process_payment", "generate_payment_link", "list_saved_payment_methods"}
    /\ HasKey(args.data, FIELD.delivery_address_country_code)

\* the country code the caller supplied
SuppliedCountry == Lookup(args.data, FIELD.delivery_address_country_code).s

\* the numeric ISO 3166 code of a country code: 'fi' and 'FI' are '246', a
\* numeric code is itself
NumericCountry(code) ==
    IF code \in {<<102, 105>>, <<70, 73>>} THEN <<50, 52, 54>> ELSE code

\* the request the call posted to the protocol endpoint
PostedRequest == sent[Len(sent)].data

\* C20: in every operation that takes a delivery-address country code, an
\* alphabetic code is replaced by its numeric ISO 3166 code before the fields
\* are signed and transmitted, and a numeric code is passed on unchanged ('fi'
\* and 'FI' become '246', '246' stays '246').
C20_CountryNumeric ==
    OperationWithCountryDone =>
        /\ sent # <<>>
        /\ Lookup(PostedRequest, FIELD.delivery_address_country_code)
              = StrVal(NumericCountry(SuppliedCountry))
        /\ Lookup(PostedRequest, SIGNATURE_ONE).s
              = generate_signature(_RSA_private_key,
                                   DelItem(DelItem(PostedRequest, SIGNATURE_ONE),
                                           SIGNATURE_TWO), "SHA1").val

\* what holds of C20 in generate_payment_link, which uppercases the code, and
\* of the numeric codes in all three operations
C20_LinkCountryNumeric ==
    (OperationWithCountryDone /\ (op = "generate_payment_link" \/ ~isalpha(SuppliedCountry))) =>
        /\ sent # <<>>
        /\ Lookup(PostedRequest, FIELD.delivery_address_country_code)
              = StrVal(NumericCountry(SuppliedCountry))

\* what holds of C20 in generate_payment_data, which uppercases the code
C20_PaymentDataCountryNumeric ==
    (GeneratePaymentDataDone /\ HasKey(args.data, DATA.country)) =>
        /\ ~result.raised
        /\ Lookup(result.val, FIELD.delivery_address_country_code)
              = StrVal(NumericCountry(Lookup(args.data, DATA.country).s))

(***************************************************************************)
(* Properties of send_request: the request it builds.                      *)
(***************************************************************************)
\* the names of the two signature fields
SignatureFields == {SIGNATURE_ONE, SIGNATURE_TWO}

\* the names of the protocol metadata
MetadataFields ==
    {REQUEST_ID, REQUEST_TIMESTAMP, MERCHANT_AGREEMENT_CODE, SOFTWARE,
     SOFTWARE_VERSION, INTERFACE_VERSION}

\* the value of a metadata field in the call in progress
MetadataValue(k) ==
    IF k = REQUEST_ID THEN StrVal(args.clock.now_id \o DecimalDigits(args.clock.rand))
    ELSE IF k = REQUEST_TIMESTAMP THEN StrVal(args.clock.now)
    ELSE IF k = MERCHANT_AGREEMENT_CODE THEN StrVal(_agreement_code)
    ELSE IF k = SOFTWARE THEN StrVal(_software_name)
    ELSE IF k = SOFTWARE_VERSION THEN StrVal(_version)
    ELSE StrVal(_interface_version)

\* the posted request without the two signature fields
PostedUnsigned == DelItem(DelItem(PostedRequest, SIGNATURE_ONE), SIGNATURE_TWO)

\* C21: send_request builds the outgoing mapping as the protocol metadata
\* overlaid with the caller's options, a caller key equal to a metadata key
\* replacing the metadata value; both signatures are computed over that same
\* merged mapping before either signature field is added, and the posted
\* mapping is the merged mapping plus exactly the two signature fields.
C21_MergedThenSigned ==
    SendRequestDone =>
        /\ sent # <<>>
        /\ Len(PostedRequest) = Cardinality(DictKeys(PostedRequest))
        /\ DictKeys(PostedRequest)
              = MetadataFields \cup DictKeys(args.options) \cup SignatureFields
        /\ \A k \in DictKeys(PostedUnsigned) :
              Lookup(PostedRequest, k)
                  = IF HasKey(args.options, k) THEN Lookup(args.options, k)
                    ELSE MetadataValue(k)
        /\ Lookup(PostedRequest, SIGNATURE_ONE)
              = StrVal(generate_signature(_RSA_private_key, PostedUnsigned, "SHA1").val)
        /\ Lookup(PostedRequest, SIGNATURE_TWO)
              = StrVal(generate_signature(_RSA_private_key, PostedUnsigned, "SHA512").val)

\* options that replace the interface version: 10 is posted, with the other
\* metadata and the caller's own field
C21_Witness ==
    /\ SendRequestDone
    /\ HasKey(args.options, INTERFACE_VERSION)
    /\ Lookup(PostedRequest, INTERFACE_VERSION) = IntVal(10)
    /\ Lookup(PostedRequest, MERCHANT_AGREEMENT_CODE) = StrVal(_agreement_code)
    /\ HasKey(PostedRequest, <<66>>)
    /\ Len(PostedRequest) = 9

\* options that name an operation and no metadata: the metadata is posted as
\* the client holds it
C21_WitnessOperation ==
    /\ SendRequestDone
    /\ Lookup(PostedRequest, OPERATION) = StrVal(IS_AVAILABLE)
    /\ Lookup(PostedRequest, INTERFACE_VERSION) = StrVal(_interface_version)
    /\ Len(PostedRequest) = 9

(***************************************************************************)
(* Properties of verify_response: the shop-order phase field.              *)
(***************************************************************************)
\* the responses that differ from data in the presence or the value of the
\* shop-order phase field only
PhaseVariants(data) ==
    {DelItem(data, SHOP_ORDER_PHASE)}
        \cup {SetItem(data, SHOP_ORDER_PHASE, v) : v \in ResponseValues}

\* C22: verify_response canonicalizes the response without the two signature
\* fields and without the field 's-t-1-40_shop-order__phase': two responses
\* that differ only in the presence or the value of that field get the same
\* outcome (both pass or both raise), and a correctly signed response with the
\* extra field verifies.
C22_PhaseIgnored ==
    VerifyResponseDone =>
        /\ \A other \in PhaseVariants(args.data) :
              verify_response(_RSA_verifone_public_key, other) = result
        /\ (CorrectlySigned /\ args.tampered = <<>>) => result = Return(TRUE)

\* a correctly signed response that carries the phase field: it verifies, and
\* so does the response without the field
C22_Witness ==
    /\ VerifyResponseDone
    /\ CorrectlySigned
    /\ args.tampered = <<>>
    /\ HasKey(args.data, SHOP_ORDER_PHASE)
    /\ DelItem(args.data, SHOP_ORDER_PHASE) \in PhaseVariants(args.data)
    /\ result = Return(TRUE)

\* a response with the phase field whose second signature is not the
\* counterparty's: it raises with and without the field
C22_WitnessRaises ==
    /\ VerifyResponseDone
    /\ HasKey(args.data, SHOP_ORDER_PHASE)
    /\ args.fault.which = "two"
    /\ args.fault.how = "digit"
    /\ result = Raise("ValueError", "SignatureVerificationFailed")

(***************************************************************************)
(* Properties of the endpoint selection.                                   *)
(***************************************************************************)
\* a selection among the two nodes has been made: get_endpoint_url, on its own
\* or in send_request, or posturl in live mode
SelectionDone ==
    /\ pc = "done"
    /\ \/ op \in {"get_endpoint_url", "send_request"}
       \/ op = "posturl" /\ _test_mode = 0

\* the status the nodes answered the liveness probes with
ProbeAnswers ==
    IF op = "send_request" THEN <<args.network.probe1, args.network.probe2>>
    ELSE <<args.probe1, args.probe2>>

\* the liveness probes of the call, in order
Probes == IF op = "send_request" THEN SubSeq(sent, 1, Len(sent) - 1) ELSE sent

\* the url the selection gave: the one returned, or the one send_request
\* posted the request to
SelectedUrl == IF op = "send_request" THEN sent[Len(sent)].url ELSE result.val

\* the urls of the two nodes
Nodes ==
    IF op = "posturl" THEN <<posturl1(_test_mode), posturl2(_test_mode)>>
    ELSE <<endpoint(_test_mode), endpoint2(_test_mode)>>

\* node 1 is probed first with a plain POST and selected when it answers 200;
\* only when it does not, node 2 is probed and selected; at most two probes
FailoverOrder ==
    /\ Len(Probes) \in 1..2
    /\ Probes[1] = Post(Nodes[1], <<>>)
    /\ IF ProbeAnswers[1] = 200
       THEN Len(Probes) = 1 /\ SelectedUrl = Nodes[1]
       ELSE Len(Probes) = 2 /\ Probes[2] = Post(Nodes[2], <<>>) /\ SelectedUrl = Nodes[2]

\* the probe of the selected node was answered with 200
SelectedAnswered200 == ProbeAnswers[Len(Probes)] = 200

\* C23: endpoint failover in get_endpoint_url (and posturl in live mode): node
\* 1 is probed first with a plain POST and is returned when the probe answers
\* HTTP 200; only when it does not, node 2 is probed and node 2 is returned; at
\* most two probes are sent per selection, and the URL returned is one whose
\* liveness probe answered HTTP 200.
C23_ReturnedNodeAlive ==
    SelectionDone => (FailoverOrder /\ SelectedAnswered200)

\* what holds of C23 in the code: the order of the probes and the failover to
\* node 2, whatever node 2 answers
C23_FailoverOrder == SelectionDone => FailoverOrder

(***************************************************************************)
(* Properties of the payment token.                                        *)
(***************************************************************************)
\* the first 32 characters, uppercased, of the SHA-256 hex digest of
\* 'agreementCode;orderNumber;paymentTimestamp'
TokenOf(agreementCode, orderNumber, paymentTimestamp) ==
    LET digest == SHA256_hexdigest(
                      encode_utf8(agreementCode \o SEMI \o orderNumber \o SEMI
                                      \o paymentTimestamp))
    IN  upper(SubSeq(digest, 1, 32))

\* generate_payment_data returned its values
PaymentDataReturned == GeneratePaymentDataDone /\ ~result.raised

\* the values of the result without the two signature fields
PaymentDataUnsigned == DelItem(DelItem(result.val, SIGNATURE_ONE), SIGNATURE_TWO)

\* C24: generate_payment_data sets the payment-token field to the first 32
\* characters, uppercased, of the SHA-256 hex digest of
\* 'agreementCode;orderNumber;paymentTimestamp', where orderNumber and
\* paymentTimestamp are the values emitted in the order-number and
\* payment-timestamp fields of the same result (also when the timestamp was
\* defaulted because the caller omitted it); the token field is one of the
\* fields covered by both signatures.
C24_TokenOfEmittedFields ==
    PaymentDataReturned =>
        /\ Lookup(result.val, FIELD.payment_token)
              = StrVal(TokenOf(_agreement_code,
                               Lookup(result.val, FIELD.order_number).s,
                               Lookup(result.val, FIELD.payment_timestamp).s))
        /\ Lookup(result.val, FIELD.order_number) = Lookup(args.data, DATA.order_number)
        /\ Lookup(result.val, FIELD.payment_timestamp)
              = IF HasKey(args.data, DATA.payment_timestamp)
                THEN Lookup(args.data, DATA.payment_timestamp)
                ELSE StrVal(args.env.utcnow)
        /\ HasKey(PaymentDataUnsigned, FIELD.payment_token)
        /\ Lookup(result.val, SIGNATURE_ONE)
              = StrVal(generate_signature(_RSA_private_key, PaymentDataUnsigned, "SHA1").val)
        /\ Lookup(result.val, SIGNATURE_TWO)
              = StrVal(generate_signature(_RSA_private_key, PaymentDataUnsigned, "SHA512").val)

\* payment data without a payment timestamp: the token is made of the time
\* of the call, which is also emitted
C24_Witness ==
    /\ PaymentDataReturned
    /\ ~HasKey(args.data, DATA.payment_timestamp)
    /\ Lookup(result.val, FIELD.payment_timestamp) = StrVal(UTCNOW)
    /\ Lookup(result.val, FIELD.payment_token).s = TokenOf(<<77>>, <<49>>, UTCNOW)
    /\ Len(Lookup(result.val, FIELD.payment_token).s) = 32

\* payment data with a payment timestamp of its own: another token
C24_WitnessGiven ==
    /\ PaymentDataReturned
    /\ HasKey(args.data, DATA.payment_timestamp)
    /\ Lookup(args.data, DATA.payment_timestamp) = StrVal(GIVEN_TIMESTAMP)
    /\ Lookup(result.val, FIELD.payment_token).s = TokenOf(<<77>>, <<49>>, GIVEN_TIMESTAMP)
    /\ TokenOf(<<77>>, <<49>>, GIVEN_TIMESTAMP) # TokenOf(<<77>>, <<49>>, UTCNOW)

(***************************************************************************)
(* Properties of build_product_data: the transformation of an item.        *)
(***************************************************************************)
\* the optional amounts of an item and the fields they are emitted as
ItemAmounts ==
    {<<ITEM.amount_net, BI.net_amount>>, <<ITEM.amount_gross, BI.gross_amount>>,
     <<ITEM.unit_cost_gross, BI.unit_gross_cost>>, <<ITEM.unit_cost, BI.unit_cost>>}

\* the percentages and the amounts of the item at position i are scaled to
\* minor units, from that item alone, and an optional amount is there exactly
\* when the item has it
ItemScaled(product_data, item, index) ==
    /\ Lookup(product_data, BI.vat_percentage \o index)
          = IntVal(MinorUnits(Lookup(item, ITEM.vat)))
    /\ Lookup(product_data, BI.discount_percentage \o index)
          = IF HasKey(item, ITEM.discount)
            THEN IntVal(MinorUnits(Lookup(item, ITEM.discount)))
            ELSE IntVal(0)
    /\ \A a \in ItemAmounts :
          /\ HasKey(product_data, a[2] \o index) <=> HasKey(item, a[1])
          /\ HasKey(item, a[1]) =>
                Lookup(product_data, a[2] \o index) = IntVal(MinorUnits(Lookup(item, a[1])))

\* the name of the item at position i is emitted in at most 30 characters
ItemNameFits(product_data, index) ==
    Len(Lookup(product_data, BI.name \o index).s) <= 30

\* C25: each basket item is transformed independently of the other items with
\* amount scaling and truncation: in the output of build_product_data the item
\* name is at most 30 characters long, the VAT percentage, the discount
\* percentage (0 when the item has no discount) and every supplied amount or
\* unit cost are the minor-unit integers round(x * 100), and an optional
\* amount or unit-cost field is present exactly when the item supplied it.
C25_ScaledAndTruncated ==
    BuildProductDataDone =>
        /\ ~result.raised
        /\ \A i \in 0..(Len(args.data) - 1) :
              /\ ItemScaled(result.val, args.data[i + 1], DecimalDigits(i))
              /\ ItemNameFits(result.val, DecimalDigits(i))

\* what holds of C25 in the code: the scaling of the percentages and the
\* amounts, and the presence of the optional fields
C25_Scaled ==
    BuildProductDataDone =>
        /\ ~result.raised
        /\ \A i \in 0..(Len(args.data) - 1) :
              ItemScaled(result.val, args.data[i + 1], DecimalDigits(i))

(***************************************************************************)
(* Properties of send_request: the POSTs of one call.                      *)
(***************************************************************************)
\* the POSTs of the call that carry the signed request
RequestPosts == {i \in 1..Len(sent) : sent[i].data # <<>>}

\* C26: within one send_request call the signed request is posted to the
\* protocol endpoint exactly once, after the endpoint selection; whatever the
\* outcome (transport failure, empty response, processor error, verification
\* failure), the call ends by raising or returning without posting the
\* request a second time.
C26_PostedOnce ==
    SendRequestDone =>
        /\ RequestPosts = {Len(sent)}
        /\ Len(sent) \in 2..3
        /\ \A i \in 1..(Len(sent) - 1) :
              sent[i] \in {Post(endpoint(_test_mode), <<>>), Post(endpoint2(_test_mode), <<>>)}
        /\ sent[Len(sent)].url \in {endpoint(_test_mode), endpoint2(_test_mode)}
        /\ HasKey(sent[Len(sent)].data, SIGNATURE_ONE)
        /\ HasKey(sent[Len(sent)].data, SIGNATURE_TWO)

\* a call that raises after a failover: two probes and one request
C26_Witness ==
    /\ SendRequestDone
    /\ args.network.probe1 # 200
    /\ Len(sent) = 3
    /\ result.raised

\* a response with status 500: the request is not posted again
C26_WitnessStatus ==
    /\ SendRequestDone
    /\ args.network.status = 500
    /\ result = Raise("ConnectionError", "")
    /\ Len(sent) = 2

\* a verification failure: the request is not posted again
C26_WitnessVerification ==
    /\ SendRequestDone
    /\ verified
    /\ result = Raise("ValueError", "SignatureVerificationFailed")
    /\ Cardinality(RequestPosts) = 1

(***************************************************************************)
(* The client as a whole: its configuration, the two setters and the       *)
(* operations, for the properties of the state across calls.               *)
(***************************************************************************)
InitAll ==
    /\ lookup_raises = FALSE
    /\ _currency = check_currency(_default_currency, lookup_raises)
    /\ _test_mode = 0
    /\ _return_error_dict \in {0, 1}
    /\ ConstructedWith(1, 2)
    /\ NoCall

NextAll ==
    \/ Set_currency
    \/ Set_test_mode
    \/ Get_currency
    \/ Get_test_mode
    \/ Call_check_currency
    \/ Get_endpoint
    \/ Get_endpoint2
    \/ Get_posturl1
    \/ Get_posturl2
    \/ Get_posturl
    \/ Call_get_endpoint_url
    \/ Call_generate_signature
    \/ Call_verify_response
    \/ Call_send_request
    \/ Call_process_payment
    \/ Call_generate_payment_link
    \/ Call_list_saved_payment_methods
    \/ Call_generate_payment_data
    \/ Continue

SpecAll == InitAll /\ [][NextAll]_vars

(***************************************************************************)
(* Properties of the client's state across calls.                          *)
(***************************************************************************)
\* the state of the client: what the constructor stored
ClientState ==
    <<_agreement_code, _RSA_private_key, _RSA_verifone_public_key, _software_name,
      _version, _interface_version, _currency, _test_mode, _return_error_dict>>

\* the two operations that assign an attribute
Setters == {"currency.setter", "test_mode.setter"}

\* a call from its start to its end
WholeCall == pc = "idle" /\ pc' = "done"

\* C27: apart from the currency and test_mode setters, no operation of the
\* client (every API operation, send_request, generate_payment_data,
\* generate_signature, verify_response, check_currency, the endpoint
\* accessors) changes the client's state: after the call, whether it returned
\* or raised, the agreement code, both RSA keys, software name and version,
\* interface version, currency, test mode and error policy are what they were
\* before.
C27_OperationsKeepState ==
    [][(WholeCall /\ op' \notin Setters) => UNCHANGED ClientState]_vars

\* a send_request that raised on a client whose currency and test mode were
\* set to 'SEK' and 1: they are still stored
C27_Witness ==
    /\ pc = "done"
    /\ op = "send_request"
    /\ result.raised
    /\ _currency = SEK
    /\ _test_mode = 1

\* a check_currency('SEK') that returned on a client with the currency 'EUR'
C27_WitnessReturned ==
    /\ pc = "done"
    /\ op = "check_currency"
    /\ args.currency = SEK
    /\ result = Return(SEK)
    /\ _currency = _default_currency

(***************************************************************************)
(* Properties of send_request: error responses are not verified.           *)
(***************************************************************************)
\* C28: when the parsed response contains the error-message field,
\* send_request never checks either signature: the error is raised, or in
\* error-as-data mode the mapping is returned to the caller, without
\* verify_response having run, so data returned in error-as-data mode is
\* unauthenticated.
C28_ErrorsUnverified ==
    (SendRequestDone /\ CarriesErrorMessage) =>
        /\ ~verified
        /\ IF _return_error_dict = 0
           THEN result.raised /\ result.val = Lookup(Parsed.val, ERROR_MESSAGE).s
           ELSE result = Return(Parsed.val)

\* an error response whose signatures do not verify, in error-as-data mode:
\* it is returned
C28_Witness ==
    /\ SendRequestDone
    /\ CarriesErrorMessage
    /\ _return_error_dict = 1
    /\ ~BothVerify(Parsed.val)
    /\ ~verified
    /\ result = Return(Parsed.val)

\* an error response without any signature, the policy off: the error message
\* is raised, not a verification failure
C28_WitnessRaised ==
    /\ SendRequestDone
    /\ CarriesErrorMessage
    /\ _return_error_dict = 0
    /\ ~CarriesBothSignatures(Parsed.val)
    /\ result.raised
    /\ result.val = INVALID_TRANSACTION_NUMBER

(***************************************************************************)
(* Properties of the currency: assignment and the next read.               *)
(***************************************************************************)
\* the currency has just been stored through the public interface: by an
\* assignment that did not raise, or by the constructor
CurrencyStored == (SetCurrencyDone /\ ~result.raised) \/ ConstructDone

\* the code the caller gave
GivenCurrency == IF op = "__init__" THEN args.currency ELSE args.value

\* the next read of the currency property returns the numeric code of the
\* stored code, which is an uppercase 3-letter code of the registry
NextReadResolves ==
    /\ Len(_currency) = 3
    /\ _currency = upper(_currency)
    /\ Registered(_currency)
    /\ currency_getter(_currency, lookup_raises) = Return(NumericCode(_currency))

\* C29: after any currency assignment that completes without raising, and
\* after any construction, the next read of the currency property does not
\* raise and returns the numeric code of the stored code; equivalently,
\* through the public constructor and setter the stored currency is always an
\* uppercase 3-letter code that resolves in the ISO 4217 registry.
C29_SetThenGet == CurrencyStored => NextReadResolves

\* what holds of C29 in the code: the next read resolves when the code given
\* is a registered one, and for every code in the builds whose lookup raises
\* for an unknown code
C29_RecognizedSetThenGet ==
    (CurrencyStored /\ (lookup_raises \/ RecognizedCode(GivenCurrency))) => NextReadResolves

(***************************************************************************)
(* Properties of the setters: a rejected assignment.                       *)
(***************************************************************************)
\* C30: when the currency setter or the test_mode setter raises, the stored
\* currency, the stored test mode and every other configuration field keep
\* the values they had before the assignment, so a later read returns the
\* previously stored value.
C30_RejectedKeepsState ==
    [][/\ (WholeCall /\ op' \in Setters /\ result'.raised) => UNCHANGED ClientState
       /\ (WholeCall /\ op' = "test_mode") =>
             (result' = Return(_test_mode) /\ UNCHANGED ClientState)
       /\ (WholeCall /\ op' = "currency" /\ Registered(_currency)) =>
             (result' = Return(NumericCode(_currency)) /\ UNCHANGED ClientState)]_vars

\* test_mode = 2 was rejected on a client in test mode: it is still in test
\* mode
C30_Witness ==
    /\ SetTestModeDone
    /\ args.value = IntVal(2)
    /\ result = Raise("ValueError", "Test mode can be 1 or 0")
    /\ args.before = 1
    /\ _test_mode = 1

\* currency = 'Euro' was rejected on a client with the currency 'SEK': it is
\* still 'SEK'
C30_WitnessCurrency ==
    /\ SetCurrencyDone
    /\ args.value = <<69, 117, 114, 111>>
    /\ result.raised
    /\ args.before = SEK
    /\ _currency = SEK

=============================================================================
